---- MODULE Spec2Model ----
(***************************************************************************)
(* CogniQuest: the application state machine (App), the results scoring    *)
(* (ResultsScreen), and the history store of the persistence adapter (db). *)
(*                                                                         *)
(* Conventions                                                             *)
(*  - a JavaScript string is a sequence of one-character strings;          *)
(*  - the answer value null is the one-element sequence Null, whose        *)
(*    element is no character of the alphabet; an absent key of a map is   *)
(*    an index outside the DOMAIN of the function;                         *)
(*  - question indices are 0-based as in the source, quizData[i] of the    *)
(*    source is questions[i + 1] here;                                     *)
(*  - the reference null of quizData is NoQuiz; a quiz carries the         *)
(*    identity of its array (ref), since two quizzes may hold equal        *)
(*    questions;                                                           *)
(*  - currentHistoryId undefined is 0 (IndexedDB keys start at 1);         *)
(*  - score and penalty are counted in hundredths of a point.              *)
(***************************************************************************)
EXTENDS Integers, Sequences, FiniteSets, TLC

\* ------------------------------------------------------------------ bounds
\* Questions of the longest quiz the gateway returns.
MaxQuestions == 2
\* Quizzes the gateway generates in one behaviour.
MaxQuizzes == 1
\* Records the history store ever holds (auto-increment keys 1..MaxHistory).
MaxHistory == 2
\* Pending setTimeout callbacks, gateway requests in flight, and
\* saveQuizHistory calls whose continuation has not run.
MaxTimers == 1
MaxRequests == 1
MaxSaves == 1
\* The largest numQuestions of a config and the most chunks of a text.
MaxNumQuestions == 7
MaxChunks == 4
\* Messages the user sends in one chat and increments of one response.
MaxTurns == 2
MaxIncrements == 2
\* Timer: the clock stops at MaxClock seconds.
MaxClock == 100
\* Session store: at most MaxWrites saveSession calls await their transaction.
MaxWrites == 2
\* splitTextIntoChunks: the longest text and the largest maxChars.
MaxTextLen == 7
MaxSplitChars == 5

\* ----------------------------------------------------------------- strings
Whitespace == {" "}

Null == <<"null">>

RECURSIVE TrimStart(_)
TrimStart(s) ==
    IF s # <<>> /\ Head(s) \in Whitespace THEN TrimStart(Tail(s)) ELSE s

RECURSIVE TrimEnd(_)
TrimEnd(s) ==
    IF s # <<>> /\ s[Len(s)] \in Whitespace
    THEN TrimEnd(SubSeq(s, 1, Len(s) - 1))
    ELSE s

Trim(s) == TrimEnd(TrimStart(s))

LowerChar(c) == IF c = "A" THEN "a" ELSE IF c = "B" THEN "b" ELSE c

ToLowerCase(s) == [k \in 1..Len(s) |-> LowerChar(s[k])]

Max(a, b) == IF a >= b THEN a ELSE b

\* --------------------------------------------------------------- questions
QuestionType == {"MCQ", "True/False", "Fill-in-the-Blank"}

NoQuiz == [ref |-> 0, questions |-> <<>>]

\* userAnswers[index] of the source: undefined when the key is absent.
Has(m, i) == i \in DOMAIN m

Attempted(userAnswers, i) == Has(userAnswers, i) /\ userAnswers[i] # Null

\* A faulty attemptedEntries: the filter lets null answers through.
attemptedEntriesKeepNull(userAnswers) == DOMAIN userAnswers

\* Object.entries(userAnswers).filter(...) : the attempted keys.
attemptedEntries(userAnswers) == {i \in DOMAIN userAnswers : userAnswers[i] # Null}

\* ----------------------------------------------- correctness, three sites
\* ResultsScreen, results memo: applied to attempted entries only.
ResultsIsCorrect(q, userAnswer) ==
    IF q.type = "Fill-in-the-Blank"
    THEN ToLowerCase(Trim(userAnswer)) = ToLowerCase(Trim(q.correctAnswer))
    ELSE userAnswer = q.correctAnswer

\* A faulty HistoryIsCorrect: Fill-in-the-Blank compared exactly.
HistoryIsCorrectExact(q, userAnswers, i) ==
    /\ Has(userAnswers, i)
    /\ userAnswers[i] = q.correctAnswer

\* saveToHistory: optional chaining yields undefined for null / absent.
HistoryIsCorrect(q, userAnswers, i) ==
    IF q.type = "Fill-in-the-Blank"
    THEN /\ Attempted(userAnswers, i)
         /\ ToLowerCase(Trim(userAnswers[i])) = ToLowerCase(Trim(q.correctAnswer))
    ELSE /\ Has(userAnswers, i)
         /\ userAnswers[i] = q.correctAnswer

\* handleStartFlashcards: the filter predicate.
FlashcardIsIncorrect(q, userAnswers, i) ==
    IF ~Attempted(userAnswers, i) THEN FALSE
    ELSE IF q.type = "Fill-in-the-Blank"
    THEN ToLowerCase(Trim(userAnswers[i])) # ToLowerCase(Trim(q.correctAnswer))
    ELSE userAnswers[i] # q.correctAnswer

\* quizData.filter(...) keeps the quiz order.
RECURSIVE FilterIncorrect(_, _, _)
FilterIncorrect(questions, userAnswers, i) ==
    IF i >= Len(questions) THEN <<>>
    ELSE (IF FlashcardIsIncorrect(questions[i + 1], userAnswers, i)
          THEN <<questions[i + 1]>> ELSE <<>>)
         \o FilterIncorrect(questions, userAnswers, i + 1)

incorrectQuestions(questions, userAnswers) == FilterIncorrect(questions, userAnswers, 0)

\* saveToHistory: correctCount accumulated by quizData.forEach.
RECURSIVE CountCorrect(_, _, _)
CountCorrect(questions, userAnswers, i) ==
    IF i >= Len(questions) THEN 0
    ELSE (IF HistoryIsCorrect(questions[i + 1], userAnswers, i) THEN 1 ELSE 0)
         + CountCorrect(questions, userAnswers, i + 1)

correctCount(questions, userAnswers) == CountCorrect(questions, userAnswers, 0)

\* ------------------------------------------------- ResultsScreen `results`
\* The forEach over attemptedEntries, in ascending key order: the pair
\* <<correctAnswers, incorrectQuestionsList>> from index i on.
RECURSIVE ResultsLoop(_, _, _)
ResultsLoop(questions, userAnswers, i) ==
    IF i >= Len(questions) THEN [correct |-> 0, incorrectList |-> <<>>]
    ELSE LET rest == ResultsLoop(questions, userAnswers, i + 1)
         IN  IF i \notin attemptedEntries(userAnswers) THEN rest
             ELSE IF ResultsIsCorrect(questions[i + 1], userAnswers[i])
             THEN [correct |-> rest.correct + 1, incorrectList |-> rest.incorrectList]
             ELSE [correct |-> rest.correct,
                   incorrectList |-> <<questions[i + 1]>> \o rest.incorrectList]

\* A faulty ScoreOf: the floor at zero is forgotten.
ScoreNoFloor(correctAnswers, penalty) == correctAnswers * 100 - penalty

ScoreOf(correctAnswers, penalty) == Max(0, correctAnswers * 100 - penalty)

\* A faulty percentageOf: the factor 100 is forgotten.
percentageFraction(correctAnswers, attemptedQuestions) ==
    IF attemptedQuestions > 0
    THEN [num |-> correctAnswers, den |-> attemptedQuestions]
    ELSE [num |-> 0, den |-> 1]

\* percentage, an exact fraction num / den.
percentageOf(correctAnswers, attemptedQuestions) ==
    IF attemptedQuestions > 0
    THEN [num |-> correctAnswers * 100, den |-> attemptedQuestions]
    ELSE [num |-> 0, den |-> 1]

results(questions, userAnswers, quizConfig) ==
    LET totalQuestions == Len(questions)
        attemptedQuestions == Cardinality(attemptedEntries(userAnswers))
        skippedQuestions == totalQuestions - attemptedQuestions
        loop == ResultsLoop(questions, userAnswers, 0)
        correctAnswers == loop.correct
        incorrectAnswers == attemptedQuestions - correctAnswers
        penalty == IF quizConfig.negativeMarking
                   THEN incorrectAnswers * quizConfig.penalty ELSE 0
        score == ScoreOf(correctAnswers, penalty)
        percentage == percentageOf(correctAnswers, attemptedQuestions)
    IN  [score |-> score,
         totalQuestions |-> totalQuestions,
         percentage |-> percentage,
         attemptedQuestions |-> attemptedQuestions,
         correctAnswers |-> correctAnswers,
         incorrectAnswers |-> incorrectAnswers,
         skippedQuestions |-> skippedQuestions,
         incorrectQuestionsList |-> loop.incorrectList,
         incorrectQuestionsCount |-> Len(loop.incorrectList)]

\* ------------------------------------------------------------------- state
VARIABLES
    appState,        \* the AppState record held by useState in App
    isDbLoaded,      \* App: set once the startup session load has finished
    showFeedback,    \* QuizScreen local state
    history,         \* the quiz_history object store: id -> item
    nextId,          \* the store's auto-increment key generator
    pendingGen,      \* generateQuiz calls awaiting the gateway
    submitTimers,    \* setTimeout(onSubmit, 100) of handleSkipClick
    nextTimers,      \* setTimeout(onNext, 1500) of handleNextClick
    saveTimers,      \* setTimeout(saveToHistory, 100) of handleSubmitQuiz
    pendingSaves,    \* ids returned by saveQuizHistory, continuation not yet run
    pendingFlash,    \* generateFlashcards calls awaiting the gateway
    quizRefs,        \* number of question arrays the gateway has produced
    freshQuiz,       \* history variable: a new quiz, not yet submitted
    scoreInput,      \* scoring: the quiz, answers and config under test
    resultsOut,      \* scoring: <<results>> once the results screen computed
    historyScoreOut, \* scoring: <<score>> once saveToHistory computed
    flashcardOut,    \* scoring: <<list>> once handleStartFlashcards filtered
    dbCall,          \* store: the last call and its outcome
    dbBefore,        \* store: the contents before the last call
    chunking,        \* generateQuiz: the map over the chunks of the text
    splitting,       \* splitTextIntoChunks: its arguments, locals and position
    pendingHints,    \* generateHint calls awaiting the gateway, per question
    chat,            \* ChatScreen local state and the response stream
    now,             \* the clock read by Date.now(), in seconds
    session          \* the current_session store and the writes on their way to it

appVars == <<appState, isDbLoaded, showFeedback, pendingGen, submitTimers,
             nextTimers, saveTimers, pendingSaves, pendingFlash, quizRefs,
             freshQuiz>>
storeVars == <<history, nextId>>
scoreVars == <<scoreInput, resultsOut, historyScoreOut, flashcardOut>>
dbVars == <<dbCall, dbBefore>>
auxVars == <<chunking, splitting, pendingHints, chat, now, session>>
vars == <<appVars, storeVars, scoreVars, dbVars, auxVars>>

\* ------------------------------------------------------------ persistence
\* saveQuizHistory: store.add(item) under the next auto-increment key.
saveQuizHistory(store, id, item) ==
    [k \in DOMAIN store \cup {id} |->
        IF k = id
        THEN [f \in DOMAIN item \cup {"id"} |-> IF f = "id" THEN id ELSE item[f]]
        ELSE store[k]]

\* A faulty MergeItem: the trailing id of the spread is forgotten.
MergeNoId(existingItem, item, id) ==
    [f \in DOMAIN existingItem \cup DOMAIN item |->
        IF f \in DOMAIN item THEN item[f] ELSE existingItem[f]]

\* { ...existingItem, ...item, id }
MergeItem(existingItem, item, id) ==
    [f \in DOMAIN existingItem \cup DOMAIN item \cup {"id"} |->
        IF f = "id" THEN id
        ELSE IF f \in DOMAIN item THEN item[f] ELSE existingItem[f]]

\* updateQuizHistory: get, then put the merged item, or reject.
updateFound(store, id) == id \in DOMAIN store

\* A faulty updateQuizHistory: a missing record is written instead of rejected.
updateOrInsert(store, id, item) ==
    [k \in DOMAIN store \cup {id} |->
        IF k = id
        THEN (IF id \in DOMAIN store THEN MergeItem(store[id], item, id)
              ELSE MergeItem(item, item, id))
        ELSE store[k]]

updateQuizHistory(store, id, item) ==
    IF updateFound(store, id)
    THEN [store EXCEPT ![id] = MergeItem(store[id], item, id)]
    ELSE store

\* deleteQuizHistory: store.delete(id).
deleteQuizHistory(store, id) == [k \in DOMAIN store \ {id} |-> store[k]]

EmptyStore == [k \in {} |-> 0]

\* -------------------------------------------------------------- App state
NoMaterials == <<>>
NoError == <<>>
NoFlashcards == <<>>
EmptyMap == [k \in {} |-> Null]
EmptyFlags == [k \in {} |-> FALSE]
\* startTime and endTime are null or a reading of the clock; the summary is
\* null or the text of the gateway.
NoTime == -1
\* chatContext is null or one context; an answer read at a missing key is
\* undefined.
NoContext == <<>>
Undefined == <<"undefined">>
NoSummary == <<>>
\* The delays, in seconds, between two looks at the clock, and the first
\* reading of the clock.
Delays == {20, 40}
FirstInstant == CHOOSE d \in Delays : \A e \in Delays : d <= e

initialConfig ==
    [negativeMarking |-> FALSE, penalty |-> 25, timerType |-> "overall",
     time |-> 30, feedbackMode |-> "end-of-quiz"]

initialAppState ==
    [status |-> "INITIAL",
     sourceMaterials |-> NoMaterials,
     quizConfig |-> initialConfig,
     currentHistoryId |-> 0,
     quizData |-> NoQuiz,
     userAnswers |-> EmptyMap,
     currentQuestionIndex |-> 0,
     startTime |-> NoTime,
     endTime |-> NoTime,
     chatContext |-> NoContext,
     hints |-> EmptyMap,
     loadingHints |-> EmptyFlags,
     performanceSummary |-> NoSummary,
     isGeneratingSummary |-> FALSE,
     error |-> NoError,
     flashcards |-> NoFlashcards,
     isGeneratingFlashcards |-> FALSE,
     isReviewingHistory |-> FALSE]

\* What the user can upload and what the gateway can answer.
UploadedMaterials == {<<"doc">>}
GatewayQuestion(i) ==
    [type |-> IF i % 2 = 1 THEN "Fill-in-the-Blank" ELSE "MCQ", correctAnswer |-> <<"a">>]
GatewayQuizzes ==
    {[i \in 1..n |-> GatewayQuestion(i)] : n \in 1..MaxQuestions}
GatewayFlashcards == {<<"card">>}
Options == {<<"a">>, <<"b">>}
TypedText == {<<"a">>, <<"b">>}

QuizLen(st) == Len(st.quizData.questions)

\* renderContent: the quiz screen is on display and renders.
QuizScreenMounted(st) ==
    /\ isDbLoaded
    /\ st.status = "IN_PROGRESS"
    /\ st.quizData # NoQuiz
    /\ st.currentQuestionIndex < QuizLen(st)

\* QuizScreen reads quizData[currentQuestionIndex].question of an undefined
\* element: the render throws and React unmounts the application.
Crashed(st) ==
    /\ st.status = "IN_PROGRESS"
    /\ st.quizData # NoQuiz
    /\ st.currentQuestionIndex >= QuizLen(st)

\* The results screen with its buttons (not the "Loading results..." stub).
ResultsScreenMounted(st) ==
    /\ isDbLoaded
    /\ st.status = "COMPLETED"
    /\ st.quizData # NoQuiz

\* setAppState followed by the re-render: QuizScreen keeps its local
\* showFeedback only while it stays mounted on the same question.
SetAppState(new, feedback) ==
    /\ appState' = new
    /\ showFeedback' =
          IF /\ QuizScreenMounted(appState)
             /\ new.status = "IN_PROGRESS" /\ new.quizData # NoQuiz
             /\ new.currentQuestionIndex = appState.currentQuestionIndex
          THEN feedback ELSE FALSE

Timers == submitTimers + nextTimers + saveTimers
Requests == pendingGen + pendingFlash

\* ---------------------------------------------------------- App: startup
appUnchangedAsync ==
    UNCHANGED <<pendingGen, submitTimers, nextTimers, saveTimers, pendingSaves,
                pendingFlash, quizRefs>>

\* initSession on a first visit: no stored session, go to the dashboard.
initSession ==
    /\ ~isDbLoaded
    /\ ~Crashed(appState)
    /\ isDbLoaded' = TRUE
    /\ SetAppState([appState EXCEPT !.status = "DASHBOARD"], FALSE)
    /\ appUnchangedAsync
    /\ UNCHANGED <<freshQuiz, storeVars, scoreVars, dbVars, auxVars>>

\* ------------------------------------------------------- App: navigation
\* Header: the logo is always a link, handleGoToDashboard asks for a
\* confirmation when it leaves a quiz in progress.
handleGoToDashboard(confirmed) ==
    /\ ~Crashed(appState)
    /\ appState.status = "IN_PROGRESS" => confirmed
    /\ appState.status # "DASHBOARD"
    /\ SetAppState([appState EXCEPT !.status = "DASHBOARD"], FALSE)
    /\ isDbLoaded' = isDbLoaded
    /\ appUnchangedAsync
    /\ UNCHANGED <<freshQuiz, storeVars, scoreVars, dbVars, auxVars>>

\* Header "Start New Quiz" (showRestart), the dashboard's "Create New Quiz"
\* and the results screen's restart button.
showRestart == appState.status \notin {"INITIAL", "DASHBOARD", "CHATTING"}

handleStartNewConfig ==
    /\ ~Crashed(appState)
    /\ showRestart \/ (isDbLoaded /\ appState.status = "DASHBOARD")
    /\ SetAppState([initialAppState EXCEPT !.status = "INITIAL"], FALSE)
    /\ freshQuiz' = FALSE
    /\ isDbLoaded' = isDbLoaded
    /\ appUnchangedAsync
    /\ UNCHANGED <<storeVars, scoreVars, dbVars, auxVars>>

\* DashboardScreen: a click on an item of the history list.
handleReviewHistory(item) ==
    /\ isDbLoaded
    /\ appState.status = "DASHBOARD"
    /\ SetAppState([initialAppState EXCEPT
                       !.status = "COMPLETED",
                       !.quizData = item.quizData,
                       !.userAnswers = item.userAnswers,
                       !.quizConfig = item.quizConfig,
                       !.sourceMaterials = item.sourceMaterials,
                       !.currentHistoryId = item.id,
                       !.performanceSummary = item.performanceSummary,
                       !.startTime = item.timestamp,
                       !.endTime = item.timestamp,
                       !.isReviewingHistory = TRUE], FALSE)
    /\ freshQuiz' = FALSE
    /\ isDbLoaded' = isDbLoaded
    /\ appUnchangedAsync
    /\ UNCHANGED <<storeVars, scoreVars, dbVars, auxVars>>

\* FileUploadScreen hands over a non-empty list of materials.
handleFileUploaded(materials) ==
    /\ isDbLoaded
    /\ appState.status = "INITIAL"
    /\ SetAppState([appState EXCEPT
                       !.status = "CONFIGURING",
                       !.sourceMaterials = materials,
                       !.error = NoError,
                       !.currentHistoryId = 0], FALSE)
    /\ freshQuiz' = TRUE
    /\ isDbLoaded' = isDbLoaded
    /\ appUnchangedAsync
    /\ UNCHANGED <<storeVars, scoreVars, dbVars, auxVars>>

handleConfigChange(newConfig) ==
    /\ isDbLoaded
    /\ appState.status = "CONFIGURING"
    /\ \E f \in DOMAIN newConfig : appState.quizConfig[f] # newConfig[f]
    /\ SetAppState([appState EXCEPT !.quizConfig =
                       [f \in DOMAIN appState.quizConfig |->
                           IF f \in DOMAIN newConfig THEN newConfig[f]
                           ELSE appState.quizConfig[f]]], FALSE)
    /\ isDbLoaded' = isDbLoaded
    /\ appUnchangedAsync
    /\ UNCHANGED <<freshQuiz, storeVars, scoreVars, dbVars, auxVars>>

\* ------------------------------------------------------- App: generation
\* handleStartQuiz up to its await.
handleStartQuiz ==
    /\ isDbLoaded
    /\ appState.status = "CONFIGURING"
    /\ appState.sourceMaterials # NoMaterials
    /\ Requests < MaxRequests
    /\ SetAppState([appState EXCEPT !.status = "GENERATING", !.error = NoError], FALSE)
    /\ pendingGen' = pendingGen + 1
    /\ isDbLoaded' = isDbLoaded
    /\ UNCHANGED <<submitTimers, nextTimers, saveTimers, pendingSaves,
                   pendingFlash, quizRefs>>
    /\ UNCHANGED <<freshQuiz, storeVars, scoreVars, dbVars, auxVars>>

\* handleStartQuiz after the await, generateQuiz returned questions.
GenerateQuizSucceeded(questions) ==
    /\ pendingGen > 0
    /\ quizRefs < MaxQuizzes
    /\ ~Crashed(appState)
    /\ pendingGen' = pendingGen - 1
    /\ quizRefs' = quizRefs + 1
    /\ SetAppState([appState EXCEPT
                       !.status = "IN_PROGRESS",
                       !.quizData = [ref |-> quizRefs + 1, questions |-> questions],
                       !.startTime = now,
                       !.userAnswers = EmptyMap,
                       !.currentQuestionIndex = 0,
                       !.hints = EmptyMap,
                       !.loadingHints = EmptyFlags,
                       !.performanceSummary = NoSummary,
                       !.isGeneratingSummary = FALSE,
                       !.isReviewingHistory = FALSE,
                       !.currentHistoryId = 0], FALSE)
    /\ freshQuiz' = TRUE
    /\ isDbLoaded' = isDbLoaded
    /\ UNCHANGED <<submitTimers, nextTimers, saveTimers, pendingSaves, pendingFlash>>
    /\ UNCHANGED <<storeVars, scoreVars, dbVars, auxVars>>

\* handleStartQuiz, the catch block: generateQuiz threw, or the list was
\* empty and the try block threw itself.
QuizFailureMessage == <<"Quiz Generation Failed: ...">>

GenerateQuizFailed ==
    /\ pendingGen > 0
    /\ ~Crashed(appState)
    /\ pendingGen' = pendingGen - 1
    /\ SetAppState([appState EXCEPT !.status = "CONFIGURING",
                                    !.error = QuizFailureMessage], FALSE)
    /\ isDbLoaded' = isDbLoaded
    /\ UNCHANGED <<submitTimers, nextTimers, saveTimers, pendingSaves,
                   pendingFlash, quizRefs>>
    /\ UNCHANGED <<freshQuiz, storeVars, scoreVars, dbVars, auxVars>>

\* ------------------------------------------------------ App: quiz taking
QuizUnchanged ==
    /\ isDbLoaded' = isDbLoaded
    /\ UNCHANGED <<freshQuiz, storeVars, scoreVars, dbVars, auxVars>>

currentQuestion == appState.quizData.questions[appState.currentQuestionIndex + 1]
selectedAnswer ==
    IF Has(appState.userAnswers, appState.currentQuestionIndex)
    THEN appState.userAnswers[appState.currentQuestionIndex] ELSE <<>>
isSkipped ==
    /\ Has(appState.userAnswers, appState.currentQuestionIndex)
    /\ appState.userAnswers[appState.currentQuestionIndex] = Null
isInstantFeedback == appState.quizConfig.feedbackMode = "instant"
isLastQuestion == appState.currentQuestionIndex = QuizLen(appState) - 1

\* { ...prev.userAnswers, [questionIndex]: answer }
PutAnswer(userAnswers, questionIndex, answer) ==
    [k \in DOMAIN userAnswers \cup {questionIndex} |->
        IF k = questionIndex THEN answer ELSE userAnswers[k]]

\* A faulty handleOptionClick: a skipped question still takes an answer.
handleOptionClickOnSkipped(option) ==
    /\ QuizScreenMounted(appState)
    /\ currentQuestion.type # "Fill-in-the-Blank"
    /\ ~showFeedback
    /\ SetAppState([appState EXCEPT !.userAnswers =
                       PutAnswer(@, appState.currentQuestionIndex, option)],
                   IF isInstantFeedback THEN TRUE ELSE showFeedback)
    /\ appUnchangedAsync
    /\ QuizUnchanged

\* QuizScreen.handleOptionClick -> App.handleAnswerSelect (MCQ, True/False).
handleOptionClick(option) ==
    /\ QuizScreenMounted(appState)
    /\ currentQuestion.type # "Fill-in-the-Blank"
    /\ ~(showFeedback \/ isSkipped)
    /\ SetAppState([appState EXCEPT !.userAnswers =
                       PutAnswer(@, appState.currentQuestionIndex, option)],
                   IF isInstantFeedback THEN TRUE ELSE showFeedback)
    /\ appUnchangedAsync
    /\ QuizUnchanged

\* QuizScreen, the text input's onChange -> App.handleAnswerSelect.
handleInputChange(text) ==
    /\ QuizScreenMounted(appState)
    /\ currentQuestion.type = "Fill-in-the-Blank"
    /\ ~(showFeedback \/ isSkipped)
    /\ selectedAnswer # text
    /\ SetAppState([appState EXCEPT !.userAnswers =
                       PutAnswer(@, appState.currentQuestionIndex, text)],
                   showFeedback)
    /\ appUnchangedAsync
    /\ QuizUnchanged

\* App.handleNextQuestion as captured by the render of state st, applied as
\* a functional update to the state current when it runs.
handleNextQuestion(st, prev) ==
    IF st.quizData # NoQuiz /\ st.currentQuestionIndex < QuizLen(st) - 1
    THEN [prev EXCEPT !.currentQuestionIndex = @ + 1]
    ELSE prev

\* QuizScreen.handleNextClick: the Next button replaces Submit on every
\* question but the last.
handleNextClick ==
    /\ QuizScreenMounted(appState)
    /\ ~isLastQuestion
    /\ IF /\ isInstantFeedback
          /\ currentQuestion.type = "Fill-in-the-Blank"
          /\ ~showFeedback
          /\ selectedAnswer # <<>> /\ ~isSkipped
       THEN /\ Timers < MaxTimers
            /\ SetAppState(appState, TRUE)
            /\ nextTimers' = nextTimers + 1
       ELSE /\ SetAppState(handleNextQuestion(appState, appState), showFeedback)
            /\ nextTimers' = nextTimers
    /\ UNCHANGED <<pendingGen, submitTimers, saveTimers, pendingSaves,
                   pendingFlash, quizRefs>>
    /\ QuizUnchanged

\* The 1500 ms timer of handleNextClick fires.  Its onNext was captured on a
\* question that was not the last, so the captured guard holds.
NextTimerFires ==
    /\ nextTimers > 0
    /\ ~Crashed(appState)
    /\ nextTimers' = nextTimers - 1
    /\ SetAppState([appState EXCEPT !.currentQuestionIndex = @ + 1], showFeedback)
    /\ UNCHANGED <<pendingGen, submitTimers, saveTimers, pendingSaves,
                   pendingFlash, quizRefs>>
    /\ QuizUnchanged

handlePrevQuestion ==
    /\ QuizScreenMounted(appState)
    /\ appState.currentQuestionIndex > 0
    /\ SetAppState([appState EXCEPT !.currentQuestionIndex = @ - 1], showFeedback)
    /\ appUnchangedAsync
    /\ QuizUnchanged

\* QuizScreen.handleSkipClick: App.handleSkipAnswer, then a delayed submit on
\* the last question and onNext on the others.  maxTimers bounds the timers
\* that are pending at one time.
handleSkipClickWithin(maxTimers) ==
    /\ QuizScreenMounted(appState)
    /\ LET skipped == [appState EXCEPT !.userAnswers =
                          PutAnswer(@, appState.currentQuestionIndex, Null)]
       IN  IF isLastQuestion
           THEN /\ Timers < maxTimers
                /\ SetAppState(skipped, showFeedback)
                /\ submitTimers' = submitTimers + 1
           ELSE /\ SetAppState(handleNextQuestion(appState, skipped), showFeedback)
                /\ submitTimers' = submitTimers
    /\ UNCHANGED <<pendingGen, nextTimers, saveTimers, pendingSaves,
                   pendingFlash, quizRefs>>
    /\ QuizUnchanged

handleSkipClick == handleSkipClickWithin(MaxTimers)

\* App.handleSubmitQuiz: the update and the scheduled saveToHistory.
handleSubmitQuiz ==
    /\ SetAppState([appState EXCEPT !.status = "COMPLETED",
                                    !.endTime = now,
                                    !.isGeneratingSummary = FALSE,
                                    !.performanceSummary = NoSummary,
                                    !.error = NoError], FALSE)
    /\ saveTimers' = saveTimers + 1
    /\ freshQuiz' = FALSE
    /\ isDbLoaded' = isDbLoaded
    /\ UNCHANGED <<storeVars, scoreVars, dbVars, auxVars>>

\* The Submit Quiz button of the last question.
SubmitClickWithin(maxTimers) ==
    /\ QuizScreenMounted(appState)
    /\ isLastQuestion
    /\ Timers < maxTimers
    /\ handleSubmitQuiz
    /\ UNCHANGED <<pendingGen, submitTimers, nextTimers, pendingSaves,
                   pendingFlash, quizRefs>>

SubmitClick == SubmitClickWithin(MaxTimers)

\* The 100 ms timer of handleSkipClick fires.
SubmitTimerFires ==
    /\ submitTimers > 0
    /\ ~Crashed(appState)
    /\ submitTimers' = submitTimers - 1
    /\ handleSubmitQuiz
    /\ UNCHANGED <<pendingGen, nextTimers, pendingSaves, pendingFlash, quizRefs>>

\* ---------------------------------------------------------- App: history
\* saveToHistory: the item built from appStateRef.current.
historyItem(st) ==
    [timestamp |-> now,
     topic |-> "Generated Quiz",
     score |-> correctCount(st.quizData.questions, st.userAnswers),
     totalQuestions |-> QuizLen(st),
     quizData |-> st.quizData,
     userAnswers |-> st.userAnswers,
     quizConfig |-> st.quizConfig,
     sourceMaterials |-> st.sourceMaterials,
     performanceSummary |-> st.performanceSummary]

\* The 100 ms timer of handleSubmitQuiz fires: saveToHistory up to its
\* await.  The store request is queued at once, the continuation that
\* records a new id runs later (SaveResolved).  maxSaves bounds the calls
\* of saveQuizHistory whose continuation is pending.
saveToHistoryWithin(maxSaves) ==
    /\ saveTimers > 0
    /\ saveTimers' = saveTimers - 1
    /\ IF appState.quizData = NoQuiz \/ appState.isReviewingHistory
       THEN UNCHANGED <<history, nextId, pendingSaves>>
       ELSE IF appState.currentHistoryId # 0
       THEN /\ history' = updateQuizHistory(history, appState.currentHistoryId,
                                            historyItem(appState))
            /\ UNCHANGED <<nextId, pendingSaves>>
       ELSE /\ nextId <= MaxHistory
            /\ Cardinality(pendingSaves) < maxSaves
            /\ history' = saveQuizHistory(history, nextId, historyItem(appState))
            /\ nextId' = nextId + 1
            /\ pendingSaves' = pendingSaves \cup {nextId}
    /\ UNCHANGED <<appState, showFeedback, isDbLoaded, freshQuiz>>
    /\ UNCHANGED <<pendingGen, submitTimers, nextTimers, pendingFlash, quizRefs>>
    /\ UNCHANGED <<scoreVars, dbVars, auxVars>>

saveToHistory == saveToHistoryWithin(MaxSaves)

\* saveToHistory after the await of saveQuizHistory.
SaveResolved(newId) ==
    /\ newId \in pendingSaves
    /\ ~Crashed(appState)
    /\ pendingSaves' = pendingSaves \ {newId}
    /\ SetAppState([appState EXCEPT !.currentHistoryId = newId], showFeedback)
    /\ isDbLoaded' = isDbLoaded
    /\ UNCHANGED <<pendingGen, submitTimers, nextTimers, saveTimers,
                   pendingFlash, quizRefs>>
    /\ UNCHANGED <<freshQuiz, storeVars, scoreVars, dbVars, auxVars>>

\* ------------------------------------------------------ App: after a quiz
\* A faulty handleRetakeQuiz: the review flag is not cleared.
handleRetakeKeepsReview ==
    /\ ResultsScreenMounted(appState)
    /\ SetAppState([appState EXCEPT
                       !.status = "IN_PROGRESS",
                       !.userAnswers = EmptyMap,
                       !.currentQuestionIndex = 0,
                       !.startTime = now,
                       !.endTime = NoTime,
                       !.hints = EmptyMap,
                       !.loadingHints = EmptyFlags,
                       !.performanceSummary = NoSummary,
                       !.isGeneratingSummary = FALSE,
                       !.error = NoError], FALSE)
    /\ isDbLoaded' = isDbLoaded
    /\ appUnchangedAsync
    /\ UNCHANGED <<freshQuiz, storeVars, scoreVars, dbVars, auxVars>>

handleRetakeQuiz ==
    /\ ResultsScreenMounted(appState)
    /\ SetAppState([appState EXCEPT
                       !.status = "IN_PROGRESS",
                       !.userAnswers = EmptyMap,
                       !.currentQuestionIndex = 0,
                       !.startTime = now,
                       !.endTime = NoTime,
                       !.hints = EmptyMap,
                       !.loadingHints = EmptyFlags,
                       !.performanceSummary = NoSummary,
                       !.isGeneratingSummary = FALSE,
                       !.error = NoError,
                       !.isReviewingHistory = FALSE], FALSE)
    /\ isDbLoaded' = isDbLoaded
    /\ appUnchangedAsync
    /\ UNCHANGED <<freshQuiz, storeVars, scoreVars, dbVars, auxVars>>

\* handleStartFlashcards up to its await; with no incorrect answer it
\* returns before calling the gateway.  The button is disabled while
\* flashcards are generated and when the results count no incorrect answer.
handleStartFlashcards ==
    /\ ResultsScreenMounted(appState)
    /\ ~appState.isGeneratingFlashcards
    /\ results(appState.quizData.questions, appState.userAnswers,
               appState.quizConfig).incorrectQuestionsCount # 0
    /\ appState.sourceMaterials # NoMaterials
    /\ IF incorrectQuestions(appState.quizData.questions, appState.userAnswers) = <<>>
       THEN /\ SetAppState([appState EXCEPT !.isGeneratingFlashcards = FALSE,
                                            !.error = NoError], FALSE)
            /\ pendingFlash' = pendingFlash
       ELSE /\ Requests < MaxRequests
            /\ SetAppState([appState EXCEPT !.isGeneratingFlashcards = TRUE,
                                            !.error = NoError], FALSE)
            /\ pendingFlash' = pendingFlash + 1
    /\ isDbLoaded' = isDbLoaded
    /\ UNCHANGED <<pendingGen, submitTimers, nextTimers, saveTimers,
                   pendingSaves, quizRefs>>
    /\ UNCHANGED <<freshQuiz, storeVars, scoreVars, dbVars, auxVars>>

\* handleStartFlashcards after the await, a non-empty list came back.
FlashcardsSucceeded(generatedFlashcards) ==
    /\ pendingFlash > 0
    /\ ~Crashed(appState)
    /\ pendingFlash' = pendingFlash - 1
    /\ SetAppState([appState EXCEPT !.status = "FLASHCARDS",
                                    !.flashcards = generatedFlashcards,
                                    !.isGeneratingFlashcards = FALSE], showFeedback)
    /\ isDbLoaded' = isDbLoaded
    /\ UNCHANGED <<pendingGen, submitTimers, nextTimers, saveTimers,
                   pendingSaves, quizRefs>>
    /\ UNCHANGED <<freshQuiz, storeVars, scoreVars, dbVars, auxVars>>

\* handleStartFlashcards, the catch block.
FlashcardFailureMessage == <<"Flashcard Generation Failed: ...">>

\* A faulty catch block: the generating flag is not cleared.
FlashcardsFailedKeepsFlag ==
    /\ pendingFlash > 0
    /\ ~Crashed(appState)
    /\ pendingFlash' = pendingFlash - 1
    /\ SetAppState([appState EXCEPT !.error = FlashcardFailureMessage], showFeedback)
    /\ isDbLoaded' = isDbLoaded
    /\ UNCHANGED <<pendingGen, submitTimers, nextTimers, saveTimers,
                   pendingSaves, quizRefs>>
    /\ UNCHANGED <<freshQuiz, storeVars, scoreVars, dbVars, auxVars>>

FlashcardsFailed ==
    /\ pendingFlash > 0
    /\ ~Crashed(appState)
    /\ pendingFlash' = pendingFlash - 1
    /\ SetAppState([appState EXCEPT !.isGeneratingFlashcards = FALSE,
                                    !.error = FlashcardFailureMessage], showFeedback)
    /\ isDbLoaded' = isDbLoaded
    /\ UNCHANGED <<pendingGen, submitTimers, nextTimers, saveTimers,
                   pendingSaves, quizRefs>>
    /\ UNCHANGED <<freshQuiz, storeVars, scoreVars, dbVars, auxVars>>

\* FlashcardScreen's exit button.
handleExitFlashcards ==
    /\ isDbLoaded
    /\ appState.status = "FLASHCARDS"
    /\ appState.flashcards # NoFlashcards
    /\ SetAppState([appState EXCEPT !.status = "COMPLETED",
                                    !.flashcards = NoFlashcards], FALSE)
    /\ isDbLoaded' = isDbLoaded
    /\ appUnchangedAsync
    /\ UNCHANGED <<freshQuiz, storeVars, scoreVars, dbVars, auxVars>>

\* ------------------------------------------------------ the application
NoScoreInput == [questions |-> <<>>, userAnswers |-> EmptyMap, quizConfig |-> initialConfig]
NoCall == [op |-> "none", id |-> 0, item |-> [k \in {} |-> 0], ok |-> TRUE]

ScoreIdle ==
    /\ scoreInput = NoScoreInput
    /\ resultsOut = <<>>
    /\ historyScoreOut = <<>>
    /\ flashcardOut = <<>>

DbIdle ==
    /\ dbCall = NoCall
    /\ dbBefore = EmptyStore

NoChunking == [totalQuestions |-> 0, chunks |-> 0, mapped |-> 0,
               counts |-> <<>>, prompts |-> <<>>]

\* splitTextIntoChunks is not running.
NoSplitting == [text |-> <<>>, maxChars |-> 0, overlap |-> 0, pc |-> "idle",
                startIndex |-> 0, chunks |-> <<>>]

NoPendingHints == [i \in 0..(MaxQuestions - 1) |-> 0]

\* The current_session store of a first visit: no active_state, no
\* saveSession on its way, the save-session effect has not run.
NoSession == [active_state |-> <<>>, writes |-> <<>>, saved |-> <<>>]

\* ChatScreen as constructed: useState([]), useState(false), no turn yet.
NoChat == [messages |-> <<>>, isLoading |-> FALSE, fullResponse |-> <<>>,
           stream |-> "none"]

AuxIdle ==
    /\ chunking = NoChunking
    /\ splitting = NoSplitting
    /\ pendingHints = NoPendingHints
    /\ chat = NoChat
    /\ now = FirstInstant
    /\ session = NoSession

AppInit ==
    /\ appState = initialAppState
    /\ isDbLoaded = FALSE
    /\ showFeedback = FALSE
    /\ pendingGen = 0
    /\ submitTimers = 0
    /\ nextTimers = 0
    /\ saveTimers = 0
    /\ pendingSaves = {}
    /\ pendingFlash = 0
    /\ quizRefs = 0
    /\ freshQuiz = FALSE

StoreInit ==
    /\ history = EmptyStore
    /\ nextId = 1

Init ==
    /\ AppInit
    /\ StoreInit
    /\ ScoreIdle
    /\ DbIdle
    /\ AuxIdle

Next ==
    \/ initSession
    \/ \E confirmed \in BOOLEAN : handleGoToDashboard(confirmed)
    \/ handleStartNewConfig
    \/ \E id \in DOMAIN history : handleReviewHistory(history[id])
    \/ \E materials \in UploadedMaterials : handleFileUploaded(materials)
    \/ \E mode \in {"instant", "end-of-quiz"} :
          handleConfigChange([feedbackMode |-> mode])
    \/ handleStartQuiz
    \/ \E questions \in GatewayQuizzes : GenerateQuizSucceeded(questions)
    \/ GenerateQuizFailed
    \/ \E option \in Options : handleOptionClick(option)
    \/ \E text \in TypedText : handleInputChange(text)
    \/ handleNextClick
    \/ NextTimerFires
    \/ handlePrevQuestion
    \/ handleSkipClick
    \/ SubmitClick
    \/ SubmitTimerFires
    \/ saveToHistory
    \/ \E newId \in pendingSaves : SaveResolved(newId)
    \/ handleRetakeQuiz
    \/ handleStartFlashcards
    \/ \E cards \in GatewayFlashcards : FlashcardsSucceeded(cards)
    \/ FlashcardsFailed
    \/ handleExitFlashcards

Spec == Init /\ [][Next]_vars

\* The user only takes and retakes quizzes: no dashboard, no review, no
\* flashcards, and one more save may be in flight.
NextRetake ==
    \/ initSession
    \/ handleStartNewConfig
    \/ \E materials \in UploadedMaterials : handleFileUploaded(materials)
    \/ handleStartQuiz
    \/ \E questions \in GatewayQuizzes : GenerateQuizSucceeded(questions)
    \/ \E option \in Options : handleOptionClick(option)
    \/ \E text \in TypedText : handleInputChange(text)
    \/ handleNextClick
    \/ handlePrevQuestion
    \/ handleSkipClick
    \/ SubmitClick
    \/ SubmitTimerFires
    \/ saveToHistoryWithin(MaxSaves + 1)
    \/ \E newId \in pendingSaves : SaveResolved(newId)
    \/ handleRetakeQuiz

SpecRetake == Init /\ [][NextRetake]_vars

\* ================================================================ scoring
\* The three computations over one quiz, answers map and config: the
\* results memo of ResultsScreen, the raw score of saveToHistory and the
\* filter of handleStartFlashcards.
ScoreQuestions ==
    {[type |-> t, correctAnswer |-> <<"a">>] : t \in QuestionType}
AnswerTexts == {<<>>, <<"a">>, <<" ", "A">>, <<"b">>}
AnswerValues == AnswerTexts \cup {Null}
Penalties == {25, 300}

AnswerMaps(n) ==
    UNION {[keys -> AnswerValues] : keys \in SUBSET (0..(n - 1))}

ScoreInputs ==
    UNION {[questions : [1..n -> ScoreQuestions],
            userAnswers : AnswerMaps(n),
            quizConfig : [negativeMarking : BOOLEAN, penalty : Penalties,
                          feedbackMode : {"end-of-quiz"}]]
           : n \in 1..MaxQuestions}

InitScore ==
    /\ AppInit
    /\ StoreInit
    /\ DbIdle
    /\ AuxIdle
    /\ scoreInput \in ScoreInputs
    /\ resultsOut = <<>>
    /\ historyScoreOut = <<>>
    /\ flashcardOut = <<>>

\* ResultsScreen renders: the results memo.
ShowResults ==
    /\ resultsOut = <<>>
    /\ resultsOut' = <<results(scoreInput.questions, scoreInput.userAnswers,
                               scoreInput.quizConfig)>>
    /\ UNCHANGED <<scoreInput, historyScoreOut, flashcardOut>>
    /\ UNCHANGED <<appVars, storeVars, dbVars, auxVars>>

\* saveToHistory computes the raw score of the history item.
SaveScore ==
    /\ historyScoreOut = <<>>
    /\ historyScoreOut' = <<correctCount(scoreInput.questions, scoreInput.userAnswers)>>
    /\ UNCHANGED <<scoreInput, resultsOut, flashcardOut>>
    /\ UNCHANGED <<appVars, storeVars, dbVars, auxVars>>

\* handleStartFlashcards filters the questions it sends to the gateway.
FilterFlashcards ==
    /\ flashcardOut = <<>>
    /\ flashcardOut' = <<incorrectQuestions(scoreInput.questions, scoreInput.userAnswers)>>
    /\ UNCHANGED <<scoreInput, resultsOut, historyScoreOut>>
    /\ UNCHANGED <<appVars, storeVars, dbVars, auxVars>>

NextScore ==
    \/ ShowResults
    \/ SaveScore
    \/ FilterFlashcards

SpecScore == InitScore /\ [][NextScore]_vars

\* ========================================================== history store
\* The object store on its own: every call is one IndexedDB transaction.
DbItems == [topic : {"Old", "New"}, score : {0, 1}]
\* Partial<QuizHistoryItem>: any subset of the fields, id included.
PartialItems ==
    {[f \in fields |-> full[f]] :
        full \in [topic : {"Old", "New"}, score : {0, 1}, id : 1..MaxHistory],
        fields \in SUBSET {"topic", "score", "id"}}
DbIds == 1..(MaxHistory + 1)

InitDb ==
    /\ AppInit
    /\ StoreInit
    /\ ScoreIdle
    /\ DbIdle
    /\ AuxIdle

DbSave(item) ==
    /\ nextId <= MaxHistory
    /\ dbBefore' = history
    /\ history' = saveQuizHistory(history, nextId, item)
    /\ nextId' = nextId + 1
    /\ dbCall' = [op |-> "save", id |-> nextId, item |-> item, ok |-> TRUE]
    /\ UNCHANGED <<appVars, scoreVars, auxVars>>

\* saveToHistory's overwrite and DashboardScreen.handleSaveTitle.
DbUpdate(id, item) ==
    /\ dbBefore' = history
    /\ history' = updateQuizHistory(history, id, item)
    /\ dbCall' = [op |-> "update", id |-> id, item |-> item,
                  ok |-> updateFound(history, id)]
    /\ UNCHANGED <<nextId, appVars, scoreVars, auxVars>>

\* DashboardScreen.handleDelete.
DbDelete(id) ==
    /\ dbBefore' = history
    /\ history' = deleteQuizHistory(history, id)
    /\ dbCall' = [op |-> "delete", id |-> id, item |-> [k \in {} |-> 0], ok |-> TRUE]
    /\ UNCHANGED <<nextId, appVars, scoreVars, auxVars>>

NextDb ==
    \/ \E item \in DbItems : DbSave(item)
    \/ \E id \in DbIds, item \in PartialItems : DbUpdate(id, item)
    \/ \E id \in DbIds : DbDelete(id)

SpecDb == InitDb /\ [][NextDb]_vars

\* ======================================================= quiz generation
\* generateQuiz over a text that splitTextIntoChunks cut into `chunks`
\* pieces, for a config asking for totalQuestions questions.
questionsPerChunk(totalQuestions, chunks) == totalQuestions \div chunks

remainder(totalQuestions, chunks) == totalQuestions % chunks

\* A faulty chunkCount: the remainder is handed to no chunk.
chunkCountNoRemainder(totalQuestions, chunks, i) ==
    questionsPerChunk(totalQuestions, chunks)

\* The count of the map callback for chunk i (0-based).
chunkCount(totalQuestions, chunks, i) ==
    questionsPerChunk(totalQuestions, chunks)
    + (IF i < remainder(totalQuestions, chunks) THEN 1 ELSE 0)

ChunkInputs ==
    {[totalQuestions |-> n, chunks |-> k, mapped |-> 0,
      counts |-> <<>>, prompts |-> <<>>] :
        n \in 0..MaxNumQuestions, k \in 1..MaxChunks}

InitChunks ==
    /\ AppInit
    /\ StoreInit
    /\ ScoreIdle
    /\ DbIdle
    /\ chunking \in ChunkInputs
    /\ splitting = NoSplitting
    /\ pendingHints = NoPendingHints
    /\ chat = NoChat
    /\ now = FirstInstant
    /\ session = NoSession

\* chunks.length === 1: one prompt asking for all the questions.
PromptWhole ==
    /\ chunking.chunks = 1
    /\ chunking.mapped = 0
    /\ chunking' = [chunking EXCEPT
          !.mapped = 1,
          !.prompts = <<[part |-> 0, count |-> chunking.totalQuestions]>>]
    /\ UNCHANGED <<appVars, storeVars, scoreVars, dbVars, splitting, pendingHints, chat, now, session>>

\* The map callback for the next chunk: its count, and the prompt sent to
\* the gateway unless the count is 0.
PromptChunk ==
    /\ chunking.chunks > 1
    /\ chunking.mapped < chunking.chunks
    /\ LET i == chunking.mapped
           count == chunkCount(chunking.totalQuestions, chunking.chunks, i)
       IN  chunking' = [chunking EXCEPT
              !.mapped = i + 1,
              !.counts = Append(@, count),
              !.prompts = IF count = 0 THEN @
                          ELSE Append(@, [part |-> i, count |-> count])]
    /\ UNCHANGED <<appVars, storeVars, scoreVars, dbVars, splitting, pendingHints, chat, now, session>>

NextChunks ==
    \/ PromptWhole
    \/ PromptChunk

SpecChunks == InitChunks /\ [][NextChunks]_vars

\* ================================================================== hints
\* What the gateway can answer to a hint prompt, trimmed: nothing or a text.
GatewayHints == {<<>>, <<"h">>}
HintApology == <<"Sorry, I couldn't generate a hint right now.">>

\* generateHint: the gateway's text, or the apology when the call throws.
generateHint(answered, text) == IF answered THEN text ELSE HintApology

currentHint == Has(appState.hints, appState.currentQuestionIndex)
isLoadingHint ==
    /\ Has(appState.loadingHints, appState.currentQuestionIndex)
    /\ appState.loadingHints[appState.currentQuestionIndex]

PutFlag(flags, questionIndex, flag) ==
    [k \in DOMAIN flags \cup {questionIndex} |->
        IF k = questionIndex THEN flag ELSE flags[k]]

hintUnchanged ==
    /\ isDbLoaded' = isDbLoaded
    /\ appUnchangedAsync
    /\ UNCHANGED <<freshQuiz, storeVars, scoreVars, dbVars, chunking, splitting, chat, now, session>>

\* QuizScreen.handleGetHintClick and App.handleGetHint up to its await.
handleGetHintClick ==
    /\ QuizScreenMounted(appState)
    /\ ~currentHint
    /\ ~isLoadingHint
    /\ appState.sourceMaterials # NoMaterials
    /\ pendingHints[appState.currentQuestionIndex] < MaxRequests
    /\ SetAppState([appState EXCEPT !.loadingHints =
                       PutFlag(@, appState.currentQuestionIndex, TRUE)],
                   showFeedback)
    /\ pendingHints' = [pendingHints EXCEPT ![appState.currentQuestionIndex] = @ + 1]
    /\ hintUnchanged

\* handleGetHint after the await: the hint is stored when it is a non-empty
\* text, and the finally block clears the loading flag.
HintReturned(questionIndex, hint) ==
    /\ pendingHints[questionIndex] > 0
    /\ ~Crashed(appState)
    /\ pendingHints' = [pendingHints EXCEPT ![questionIndex] = @ - 1]
    /\ SetAppState([appState EXCEPT
          !.hints = IF hint # <<>> THEN PutAnswer(@, questionIndex, hint) ELSE @,
          !.loadingHints = PutFlag(@, questionIndex, FALSE)], showFeedback)
    /\ hintUnchanged

\* The gateway answered the hint prompt.
HintAnswered(questionIndex, text) ==
    HintReturned(questionIndex, generateHint(TRUE, text))

\* The gateway call of generateHint threw.
HintGatewayFailed(questionIndex) ==
    HintReturned(questionIndex, generateHint(FALSE, <<>>))

NextHints ==
    \/ initSession
    \/ handleStartNewConfig
    \/ \E materials \in UploadedMaterials : handleFileUploaded(materials)
    \/ handleStartQuiz
    \/ \E questions \in GatewayQuizzes : GenerateQuizSucceeded(questions)
    \/ handleNextClick
    \/ handlePrevQuestion
    \/ handleGetHintClick
    \/ \E i \in DOMAIN pendingHints, text \in GatewayHints : HintAnswered(i, text)
    \/ \E i \in DOMAIN pendingHints : HintGatewayFailed(i)

SpecHints == Init /\ [][NextHints]_vars

\* =================================================================== chat
\* ChatScreen with the async generator getChatResponse behind it.
ChatGreeting == <<"Hi! Let's talk about this question">>
ServiceApology ==
    <<"I'm sorry, I'm having trouble responding right now. Please try again later.">>
ScreenApology == <<"Sorry, I encountered an error. Please try again.">>
UserTexts == {<<"q">>, <<" ">>}
ChunkTexts == {<<>>, <<"x">>, <<"y">>}

\* updatedMessages[updatedMessages.length - 1] = { ..., text }
SetLastText(messages, text) ==
    [messages EXCEPT ![Len(messages)] = [@ EXCEPT !.text = text]]

UserMessages(messages) ==
    {k \in DOMAIN messages : messages[k].sender = "user"}

chatUnchanged ==
    UNCHANGED <<appVars, storeVars, scoreVars, dbVars, chunking, splitting, pendingHints, now, session>>

\* The mount effect: the greeting of the assistant.
ChatGreet ==
    /\ chat.messages = <<>>
    /\ chat' = [chat EXCEPT !.messages = <<[sender |-> "ai", text |-> ChatGreeting]>>]
    /\ chatUnchanged

\* handleSend up to the first await on the generator.
handleSend(textToSend) ==
    /\ chat.messages # <<>>
    /\ Trim(textToSend) # <<>>
    /\ ~chat.isLoading
    /\ Cardinality(UserMessages(chat.messages)) < MaxTurns
    /\ chat' = [messages |-> chat.messages
                               \o <<[sender |-> "user", text |-> textToSend],
                                    [sender |-> "ai", text |-> <<>>]>>,
                isLoading |-> TRUE,
                fullResponse |-> <<>>,
                stream |-> "open"]
    /\ chatUnchanged

\* A faulty loop: the last message shows the increment alone, not the
\* response accumulated so far.
StreamChunkReplaces(text) ==
    /\ chat.stream = "open"
    /\ Len(chat.fullResponse) < MaxIncrements
    /\ chat' = IF text = <<>> THEN chat
               ELSE [chat EXCEPT
                        !.fullResponse = @ \o text,
                        !.messages = SetLastText(@, text)]
    /\ chatUnchanged

\* The gateway delivers an increment: getChatResponse yields it when its
\* text is not empty, and the loop of handleSend appends it.
StreamChunk(text) ==
    /\ chat.stream = "open"
    /\ Len(chat.fullResponse) < MaxIncrements
    /\ chat' = IF text = <<>> THEN chat
               ELSE [chat EXCEPT
                        !.fullResponse = @ \o text,
                        !.messages = SetLastText(@, chat.fullResponse \o text)]
    /\ chatUnchanged

\* The gateway's stream ends: the generator returns, the loop ends and the
\* finally block clears the loading flag.
StreamEnded ==
    /\ chat.stream = "open"
    /\ chat' = [chat EXCEPT !.isLoading = FALSE, !.stream = "ended"]
    /\ chatUnchanged

\* The gateway throws, on the call or between increments: getChatResponse
\* catches it and yields its apology as one more increment, then returns;
\* handleSend appends it like any increment and reaches its finally block.
StreamFailed ==
    /\ chat.stream = "open"
    /\ chat' = [chat EXCEPT
                   !.fullResponse = @ \o ServiceApology,
                   !.messages = SetLastText(@, chat.fullResponse \o ServiceApology),
                   !.isLoading = FALSE,
                   !.stream = "failed"]
    /\ chatUnchanged

NextChat ==
    \/ ChatGreet
    \/ \E text \in UserTexts : handleSend(text)
    \/ \E text \in ChunkTexts : StreamChunk(text)
    \/ StreamEnded
    \/ StreamFailed

SpecChat == Init /\ [][NextChat]_vars

\* ================================================================== Timer
\* durationInMinutes * 60
SecondsPerMinute == 60

\* QuizScreen renders Timer for the overall mode and a truthy startTime
\* only; the per-question mode renders no timer.
TimerMounted(st) ==
    /\ QuizScreenMounted(st)
    /\ st.startTime # NoTime
    /\ st.quizConfig.timerType = "overall"

durationInSeconds(st) == st.quizConfig.time * SecondsPerMinute

\* calculateRemaining: the clock is read in whole seconds.
calculateRemaining(st) == durationInSeconds(st) - (now - st.startTime)

\* What QuizConfigScreen can set: the mode and its value (minutes for
\* overall, seconds for per-question).
TimerConfigs ==
    {[timerType |-> m, time |-> 1] : m \in {"overall", "per-question"}}

\* Time passes, on any screen.
TimePasses(d) ==
    /\ now + d <= MaxClock
    /\ now' = now + d
    /\ UNCHANGED <<appVars, storeVars, scoreVars, dbVars, chunking, splitting, pendingHints, chat, session>>

\* The callback of Timer's setInterval.  The interval exists from the mount
\* effect to its cleanup, that is while Timer is rendered.  With no time
\* left it clears the interval and calls onTimeUp, the onSubmit of
\* QuizScreen; otherwise it refreshes the displayed time.
IntervalFires ==
    /\ TimerMounted(appState)
    /\ IF calculateRemaining(appState) <= 0
       THEN /\ Timers < MaxTimers
            /\ handleSubmitQuiz
            /\ UNCHANGED <<pendingGen, submitTimers, nextTimers, pendingSaves,
                           pendingFlash, quizRefs>>
       ELSE UNCHANGED vars

NextTimer ==
    \/ initSession
    \/ \E confirmed \in BOOLEAN : handleGoToDashboard(confirmed)
    \/ handleStartNewConfig
    \/ \E materials \in UploadedMaterials : handleFileUploaded(materials)
    \/ \E newConfig \in TimerConfigs : handleConfigChange(newConfig)
    \/ handleStartQuiz
    \/ \E questions \in GatewayQuizzes : GenerateQuizSucceeded(questions)
    \/ \E option \in Options : handleOptionClick(option)
    \/ handleNextClick
    \/ handlePrevQuestion
    \/ SubmitClick
    \/ \E d \in Delays : TimePasses(d)
    \/ IntervalFires
    \/ saveToHistory
    \/ \E newId \in pendingSaves : SaveResolved(newId)
    \/ handleRetakeQuiz

SpecTimer == Init /\ [][NextTimer]_vars

\* ======================================================== session store
\* IndexedDB stores a structured clone of the state: AppState holds plain
\* data only (strings, numbers, booleans, null, arrays, records), which a
\* clone reproduces field by field.
StructuredClone(st) == [f \in DOMAIN st |-> st[f]]

\* getSession: request.result || null, <<>> for null.
getSession(db) == db.active_state

\* A faulty order: the newest pending write runs first.
newestWrite(writes) == Len(writes)

\* The transaction that runs next among those of the pending saveSession
\* calls: the open requests of one database are served in the order they
\* were made and readwrite transactions on one store run in the order they
\* were created, so it is the oldest.
nextWrite(writes) == 1

RemoveAt(q, i) == [k \in 1..(Len(q) - 1) |-> IF k < i THEN q[k] ELSE q[k + 1]]

\* The save-session effect has to run: its dependencies [appState,
\* isDbLoaded] changed since it last ran.  It returns at once while
\* isDbLoaded is false.
EffectPending ==
    /\ ~Crashed(appState)
    /\ isDbLoaded
    /\ session.saved # <<appState>>

sessionUnchanged ==
    UNCHANGED <<appVars, storeVars, scoreVars, dbVars, chunking, splitting, pendingHints, chat, now>>

\* The save-session effect: saveSession(appState) up to its await.
SaveSessionEffect ==
    /\ EffectPending
    /\ Len(session.writes) < MaxWrites
    /\ session' = [session EXCEPT !.saved = <<appState>>,
                                  !.writes = Append(@, appState)]
    /\ sessionUnchanged

\* saveSession after its await: store.put(state, 'active_state') and the
\* transaction completes.
SessionPut ==
    /\ session.writes # <<>>
    /\ LET i == nextWrite(session.writes)
       IN  session' = [session EXCEPT
              !.active_state = <<StructuredClone(session.writes[i])>>,
              !.writes = RemoveAt(@, i)]
    /\ sessionUnchanged

\* An event handler of App runs; React has flushed the effects of the last
\* render before it renders the next state.
HandlerEvent ==
    \/ \E confirmed \in BOOLEAN : handleGoToDashboard(confirmed)
    \/ handleStartNewConfig
    \/ \E id \in DOMAIN history : handleReviewHistory(history[id])
    \/ \E materials \in UploadedMaterials : handleFileUploaded(materials)
    \/ handleStartQuiz
    \/ \E questions \in GatewayQuizzes : GenerateQuizSucceeded(questions)
    \/ GenerateQuizFailed
    \/ \E option \in Options : handleOptionClick(option)
    \/ handleNextClick
    \/ SubmitClick
    \/ saveToHistory
    \/ \E newId \in pendingSaves : SaveResolved(newId)
    \/ handleRetakeQuiz

AppEvent ==
    \/ initSession
    \/ HandlerEvent

NextSession ==
    \/ ~EffectPending /\ AppEvent
    \/ SaveSessionEffect
    \/ SessionPut

SpecSession == Init /\ [][NextSession]_vars

\* ==================================================== performance summary
\* ResultsScreen's AISummary shows the button until a summary exists or is
\* being generated.
hasGenerated(st) == st.performanceSummary # NoSummary \/ st.isGeneratingSummary

\* App.handleGenerateSummary: the flag is set; App holds no effect and no
\* handler that calls generatePerformanceSummary.
handleGenerateSummary ==
    /\ ResultsScreenMounted(appState)
    /\ ~hasGenerated(appState)
    /\ SetAppState(IF appState.status = "COMPLETED"
                   THEN [appState EXCEPT !.isGeneratingSummary = TRUE]
                   ELSE appState, FALSE)
    /\ isDbLoaded' = isDbLoaded
    /\ appUnchangedAsync
    /\ UNCHANGED <<freshQuiz, storeVars, scoreVars, dbVars, auxVars>>

NextSummary ==
    \/ initSession
    \/ handleStartNewConfig
    \/ \E materials \in UploadedMaterials : handleFileUploaded(materials)
    \/ handleStartQuiz
    \/ \E questions \in GatewayQuizzes : GenerateQuizSucceeded(questions)
    \/ GenerateQuizFailed
    \/ \E option \in Options : handleOptionClick(option)
    \/ handleNextClick
    \/ SubmitClick
    \/ saveToHistory
    \/ \E newId \in pendingSaves : SaveResolved(newId)
    \/ handleGenerateSummary
    \/ handleRetakeQuiz

\* What the event loop and the gateway guarantee: a timer that is set
\* fires, the continuation of a settled promise runs, and the gateway
\* answers every call.  Nothing obliges the user to act.
SummaryFairness ==
    /\ WF_vars(saveToHistory)
    /\ WF_vars(\E newId \in pendingSaves : SaveResolved(newId))
    /\ WF_vars(GenerateQuizFailed \/ \E questions \in GatewayQuizzes :
                                        GenerateQuizSucceeded(questions))

SpecSummary == Init /\ [][NextSummary]_vars /\ SummaryFairness

\* ============================================================= chat start
\* Quizzes as the gateway may return them: the question texts are free, two
\* questions may carry the same one.  The type tells the questions apart.
QuestionTexts == {<<"s">>, <<"t">>}
ChatQuizzes ==
    {[i \in 1..n |-> [type |-> GatewayQuestion(i).type,
                      question |-> texts[i],
                      correctAnswer |-> <<"a">>]] :
        n \in 1..MaxQuestions, texts \in [1..MaxQuestions -> QuestionTexts]}

\* The results of a submitted quiz are on display.
CompletedStates ==
    {[initialAppState EXCEPT
         !.status = "COMPLETED",
         !.sourceMaterials = <<"doc">>,
         !.quizData = [ref |-> 1, questions |-> questions],
         !.userAnswers = userAnswers,
         !.startTime = FirstInstant,
         !.endTime = FirstInstant] :
        questions \in ChatQuizzes, userAnswers \in AnswerMaps(MaxQuestions)}

InitStartChat ==
    /\ appState \in {st \in CompletedStates :
                        DOMAIN st.userAnswers \subseteq 0..(QuizLen(st) - 1)}
    /\ isDbLoaded = TRUE
    /\ showFeedback = FALSE
    /\ pendingGen = 0
    /\ submitTimers = 0
    /\ nextTimers = 0
    /\ saveTimers = 0
    /\ pendingSaves = {}
    /\ pendingFlash = 0
    /\ quizRefs = 1
    /\ freshQuiz = FALSE
    /\ StoreInit
    /\ ScoreIdle
    /\ DbIdle
    /\ AuxIdle

\* quizData.findIndex(q => q.question === question.question), 0-based, -1
\* when no question matches.
RECURSIVE findFrom(_, _, _)
findFrom(questions, text, i) ==
    IF i >= Len(questions) THEN -1
    ELSE IF questions[i + 1].question = text THEN i
    ELSE findFrom(questions, text, i + 1)

findIndex(questions, text) == findFrom(questions, text, 0)

\* userAnswers[i]
answerAt(userAnswers, i) ==
    IF Has(userAnswers, i) THEN userAnswers[i] ELSE Undefined

\* App.handleStartChat, called by the chat button of a question of the
\* results screen.
handleStartChat(question) ==
    /\ ResultsScreenMounted(appState)
    /\ IF appState.sourceMaterials = NoMaterials
       THEN UNCHANGED <<appState, showFeedback>>
       ELSE LET userAnswer ==
                    answerAt(appState.userAnswers,
                             findIndex(appState.quizData.questions, question.question))
            IN  SetAppState([appState EXCEPT
                    !.status = "CHATTING",
                    !.chatContext = <<[question |-> question,
                                       userAnswer |-> userAnswer,
                                       sourceMaterials |-> appState.sourceMaterials]>>],
                    FALSE)
    /\ isDbLoaded' = isDbLoaded
    /\ appUnchangedAsync
    /\ UNCHANGED <<freshQuiz, storeVars, scoreVars, dbVars, auxVars>>

\* App.handleExitChat, the back button of ChatScreen.
handleExitChat ==
    /\ isDbLoaded
    /\ appState.status = "CHATTING"
    /\ appState.chatContext # NoContext
    /\ SetAppState([appState EXCEPT !.status = "COMPLETED",
                                    !.chatContext = NoContext], FALSE)
    /\ isDbLoaded' = isDbLoaded
    /\ appUnchangedAsync
    /\ UNCHANGED <<freshQuiz, storeVars, scoreVars, dbVars, auxVars>>

NextStartChat ==
    \/ \E i \in 1..QuizLen(appState) :
          handleStartChat(appState.quizData.questions[i])
    \/ handleExitChat

SpecStartChat == InitStartChat /\ [][NextStartChat]_vars

\* ========================================================= repeated submit
\* One attempt with its timers: the delayed submit of a skipped last
\* question may still be pending when another trigger submits.
NextSubmit ==
    \/ initSession
    \/ handleStartNewConfig
    \/ \E materials \in UploadedMaterials : handleFileUploaded(materials)
    \/ handleStartQuiz
    \/ \E questions \in GatewayQuizzes : GenerateQuizSucceeded(questions)
    \/ \E option \in Options : handleOptionClick(option)
    \/ handleNextClick
    \/ handlePrevQuestion
    \/ handleSkipClickWithin(MaxTimers + 1)
    \/ SubmitClickWithin(MaxTimers + 1)
    \/ SubmitTimerFires
    \/ saveToHistoryWithin(MaxSaves + 1)
    \/ \E newId \in pendingSaves : SaveResolved(newId)
    \/ handleRetakeQuiz

SpecSubmit == Init /\ [][NextSubmit]_vars

\* ===================================================== hints and attempts
\* A quiz with its hints, submitted and taken again while a hint request
\* may still be with the gateway.
NextHintRetake ==
    \/ initSession
    \/ handleStartNewConfig
    \/ \E materials \in UploadedMaterials : handleFileUploaded(materials)
    \/ handleStartQuiz
    \/ \E questions \in GatewayQuizzes : GenerateQuizSucceeded(questions)
    \/ handleNextClick
    \/ handlePrevQuestion
    \/ handleGetHintClick
    \/ \E i \in DOMAIN pendingHints, text \in GatewayHints : HintAnswered(i, text)
    \/ \E i \in DOMAIN pendingHints : HintGatewayFailed(i)
    \/ SubmitClick
    \/ saveToHistory
    \/ \E newId \in pendingSaves : SaveResolved(newId)
    \/ handleRetakeQuiz

SpecHintRetake == Init /\ [][NextHintRetake]_vars

\* ================================================================= reload
\* The page is loaded again: the memory of the application is gone, with
\* its timers and its requests to the gateway, and the current_session
\* store remains.  A saveSession transaction that had not completed is
\* aborted with the page (one that completes is a SessionPut before).
Reload ==
    /\ isDbLoaded
    /\ appState' = initialAppState
    /\ showFeedback' = FALSE
    /\ isDbLoaded' = FALSE
    /\ pendingGen' = 0
    /\ submitTimers' = 0
    /\ nextTimers' = 0
    /\ saveTimers' = 0
    /\ pendingSaves' = {}
    /\ pendingFlash' = 0
    /\ freshQuiz' = FALSE
    /\ session' = [session EXCEPT !.writes = <<>>, !.saved = <<>>]
    /\ UNCHANGED <<quizRefs, storeVars, scoreVars, dbVars, chunking, splitting, pendingHints, chat, now>>

\* initSession: the stored session passes the check of the schema.
storedSession == getSession(session)
StoredIsValid ==
    /\ storedSession # <<>>
    /\ storedSession[1].sourceMaterials # NoMaterials

\* initSession with a stored session: setAppState(storedSession).
initSessionStored ==
    /\ ~isDbLoaded
    /\ StoredIsValid
    /\ isDbLoaded' = TRUE
    /\ SetAppState(storedSession[1], FALSE)
    /\ appUnchangedAsync
    /\ UNCHANGED <<freshQuiz, storeVars, scoreVars, dbVars, auxVars>>

NextReload ==
    \/ ~StoredIsValid /\ initSession
    \/ initSessionStored
    \/ ~EffectPending /\ HandlerEvent
    \/ SaveSessionEffect
    \/ SessionPut
    \/ Reload

SpecReload == Init /\ [][NextReload]_vars

\* ================================================================ chunking
\* splitTextIntoChunks(text, maxChars, overlap), positions 0-based as in the
\* code.  A text is a sequence of characters, "\n" is the line feed.
SplitChars == {"a", ".", " ", "\n"}
ParagraphBreak == <<"\n", "\n">>
SentenceEnd == <<".", " ">>

SplitTexts == UNION {[1..n -> SplitChars] : n \in 0..MaxTextLen}

\* The calls: maxChars, and an overlap smaller than 0.7 * maxChars.
SplitSizes == {MaxSplitChars - 2, MaxSplitChars}
SplitInputs ==
    {[text |-> t, maxChars |-> m, overlap |-> o, pc |-> "call",
      startIndex |-> 0, chunks |-> <<>>] :
        t \in SplitTexts,
        m \in SplitSizes,
        o \in {x \in 0..MaxSplitChars : 10 * x < 7 * (MaxSplitChars - 2)}}

\* text.substring(from, to) for 0 <= from <= to <= text.length.
substring(text, from, to) == SubSeq(text, from + 1, to)

\* text.lastIndexOf(searchString, position): the largest index not above
\* position at which searchString starts, -1 when there is none.
lastIndexOf(text, searchString, position) ==
    LET last == IF position < Len(text) - Len(searchString)
                THEN position ELSE Len(text) - Len(searchString)
        found == {k \in 0..last :
                     substring(text, k, k + Len(searchString)) = searchString}
    IN  IF found = {} THEN -1
        ELSE CHOOSE k \in found : \A j \in found : j <= k

\* index > startIndex + (maxChars * 0.7), in tenths.
pastThreshold(index, startIndex, maxChars) ==
    10 * index > 10 * startIndex + 7 * maxChars

\* The body of the loop from `let splitIndex` to the push: where the chunk
\* that starts at startIndex ends.
splitIndex(text, maxChars, startIndex) ==
    LET lastParagraph == lastIndexOf(text, ParagraphBreak, startIndex + maxChars)
        lastSentence == lastIndexOf(text, SentenceEnd, startIndex + maxChars)
    IN  IF pastThreshold(lastParagraph, startIndex, maxChars)
        THEN lastParagraph
        ELSE IF pastThreshold(lastSentence, startIndex, maxChars)
        THEN lastSentence + 1
        ELSE startIndex + maxChars

splitUnchanged ==
    UNCHANGED <<appVars, storeVars, scoreVars, dbVars, chunking, pendingHints,
                chat, now, session>>

\* The first statement: a text that fits is returned whole.
SplitCall ==
    /\ splitting.pc = "call"
    /\ splitting' =
          IF Len(splitting.text) <= splitting.maxChars
          THEN [splitting EXCEPT !.pc = "return", !.chunks = <<splitting.text>>]
          ELSE [splitting EXCEPT !.pc = "loop"]
    /\ splitUnchanged

\* The test of the while loop and one run of its body.
SplitIterate ==
    /\ splitting.pc = "loop"
    /\ LET text == splitting.text
           startIndex == splitting.startIndex
           end == splitIndex(text, splitting.maxChars, startIndex)
       IN  splitting' =
              IF ~(startIndex < Len(text))
              THEN [splitting EXCEPT !.pc = "return"]
              ELSE IF Len(text) - startIndex <= splitting.maxChars
              THEN [splitting EXCEPT
                       !.chunks = Append(@, substring(text, startIndex, Len(text))),
                       !.pc = "return"]
              ELSE [splitting EXCEPT
                       !.chunks = Append(@, substring(text, startIndex, end)),
                       !.startIndex = end - splitting.overlap]
    /\ splitUnchanged

InitSplit ==
    /\ AppInit
    /\ StoreInit
    /\ ScoreIdle
    /\ DbIdle
    /\ chunking = NoChunking
    /\ splitting \in SplitInputs
    /\ pendingHints = NoPendingHints
    /\ chat = NoChat
    /\ now = FirstInstant
    /\ session = NoSession

NextSplit ==
    \/ SplitCall
    \/ SplitIterate

SpecSplit == InitSplit /\ [][NextSplit]_vars

\* ================================================================= claims
QuizStatuses == {"IN_PROGRESS", "COMPLETED", "CHATTING", "FLASHCARDS"}

\* C1: whenever status is IN_PROGRESS, COMPLETED, CHATTING or FLASHCARDS,
\* quizData is non-null, after any interleaving of user actions, delayed
\* callbacks and gateway responses.
C1_QuizDataNonNull ==
    appState.status \in QuizStatuses => appState.quizData # NoQuiz

\* C2: while status is IN_PROGRESS, currentQuestionIndex is within
\* [0, len(quizData) - 1], the delayed 'next' callback included.
C2_IndexInRange ==
    (appState.status = "IN_PROGRESS" /\ appState.quizData # NoQuiz)
        => appState.currentQuestionIndex \in 0..(QuizLen(appState) - 1)

\* C3: the state reached when a generation failure is handled has status
\* CONFIGURING, a non-empty error and quizData null, whatever the user did
\* while the request was pending.
C3_FailureState ==
    [][GenerateQuizFailed =>
          /\ appState'.status = "CONFIGURING"
          /\ appState'.error # NoError
          /\ appState'.quizData = NoQuiz]_vars

\* C4: a fresh new quiz has currentHistoryId undefined from the moment its
\* materials are submitted (or its questions generated) until it is first
\* submitted; a pending save of a previous quiz never gives it an id.
C4_FreshQuizHasNoId ==
    freshQuiz => appState.currentHistoryId = 0

\* C5: retake keeps currentHistoryId and the resubmission updates that
\* record: a quiz submitted, retaken and resubmitted any number of times has
\* exactly one record in the history store once it has been saved.
RecordsOf(ref) == {id \in DOMAIN history : history[id].quizData.ref = ref}

C5_OneRecordPerQuiz ==
    \A ref \in 1..quizRefs : Cardinality(RecordsOf(ref)) <= 1

\* ------------------------------------------------- scoring, as specified
\* The rule of the specification, stated once: null and absent answers are
\* never correct, Fill-in-the-Blank ignores case and surrounding
\* whitespace, the other types compare exactly.
RuleCorrect(q, userAnswers, i) ==
    /\ i \in DOMAIN userAnswers
    /\ userAnswers[i] # Null
    /\ IF q.type = "Fill-in-the-Blank"
       THEN ToLowerCase(Trim(userAnswers[i])) = ToLowerCase(Trim(q.correctAnswer))
       ELSE userAnswers[i] = q.correctAnswer

InQuestions == scoreInput.questions
InAnswers == scoreInput.userAnswers
InConfig == scoreInput.quizConfig
InIndices == 0..(Len(InQuestions) - 1)
RuleAttempted == {i \in InIndices : i \in DOMAIN InAnswers /\ InAnswers[i] # Null}
RuleCorrectSet == {i \in InIndices : RuleCorrect(InQuestions[i + 1], InAnswers, i)}
RuleIncorrectSet == RuleAttempted \ RuleCorrectSet
RuleRawScore ==
    100 * Cardinality(RuleCorrectSet)
    - (IF InConfig.negativeMarking
       THEN Cardinality(RuleIncorrectSet) * InConfig.penalty ELSE 0)

\* The questions of a set of indices, in quiz order.
RECURSIVE QuestionsAt(_, _)
QuestionsAt(indices, i) ==
    IF i >= Len(InQuestions) THEN <<>>
    ELSE (IF i \in indices THEN <<InQuestions[i + 1]>> ELSE <<>>)
         \o QuestionsAt(indices, i + 1)

\* C6: the score on the results screen is
\* max(0, correct - (negativeMarking ? incorrect * penalty : 0)) with
\* incorrect = attempted - correct; it is never negative and equals the
\* number of correct answers when negative marking is off.
C6_ScoreFormula ==
    resultsOut # <<>> =>
        /\ resultsOut[1].score = Max(0, RuleRawScore)
        /\ resultsOut[1].incorrectAnswers
              = Cardinality(RuleAttempted) - Cardinality(RuleCorrectSet)
        /\ resultsOut[1].score >= 0
        /\ ~InConfig.negativeMarking
              => resultsOut[1].score = 100 * Cardinality(RuleCorrectSet)

\* The results screen shows a score floored from a negative raw value.
C6_Witness ==
    /\ resultsOut # <<>>
    /\ InConfig.negativeMarking
    /\ RuleRawScore < 0
    /\ Cardinality(RuleCorrectSet) > 0

\* C7: a question answered null and a question with no entry both count as
\* skipped, never as correct or incorrect: attempted counts the entries
\* that are neither null nor absent, skipped = total - attempted and
\* correct + incorrect + skipped = total.
C7_SkippedNotAttempted ==
    resultsOut # <<>> =>
        LET r == resultsOut[1]
        IN  /\ r.attemptedQuestions = Cardinality(RuleAttempted)
            /\ r.skippedQuestions = r.totalQuestions - r.attemptedQuestions
            /\ r.skippedQuestions = Cardinality(InIndices \ RuleAttempted)
            /\ r.correctAnswers + r.incorrectAnswers + r.skippedQuestions
                  = r.totalQuestions
            /\ r.correctAnswers = Cardinality(RuleCorrectSet)
            /\ r.incorrectQuestionsList = QuestionsAt(RuleIncorrectSet, 0)
            /\ r.incorrectQuestionsCount = r.incorrectAnswers

\* Results computed for answers with an explicit null and an absent key.
C7_Witness ==
    /\ resultsOut # <<>>
    /\ \E i \in InIndices : i \in DOMAIN InAnswers /\ InAnswers[i] = Null
    /\ \E i \in InIndices : i \notin DOMAIN InAnswers

\* C8: every place applies the same rule, so the raw score saved to history
\* equals the correct count of the results screen, and the questions sent
\* to flashcard generation are those the results screen counts incorrect.
C8_SameRuleEverywhere ==
    /\ historyScoreOut # <<>>
          => historyScoreOut[1] = Cardinality(RuleCorrectSet)
    /\ flashcardOut # <<>>
          => flashcardOut[1] = QuestionsAt(RuleIncorrectSet, 0)
    /\ (historyScoreOut # <<>> /\ resultsOut # <<>>)
          => historyScoreOut[1] = resultsOut[1].correctAnswers
    /\ (flashcardOut # <<>> /\ resultsOut # <<>>)
          => flashcardOut[1] = resultsOut[1].incorrectQuestionsList

\* All three computed on a quiz with a Fill-in-the-Blank answer that is
\* correct only up to case and whitespace, and with an incorrect answer.
C8_Witness ==
    /\ resultsOut # <<>>
    /\ historyScoreOut # <<>>
    /\ flashcardOut # <<>>
    /\ \E i \in RuleCorrectSet :
          /\ InQuestions[i + 1].type = "Fill-in-the-Blank"
          /\ InAnswers[i] # InQuestions[i + 1].correctAnswer
    /\ RuleIncorrectSet # {}

\* C9: accuracy is correct / attempted * 100, and 0 when nothing was
\* attempted: all questions correct with negativeMarking off give
\* score = total and accuracy 100; all skipped give attempted = 0,
\* accuracy = 0, score = 0 and skipped = total.
C9_Accuracy ==
    resultsOut # <<>> =>
        LET r == resultsOut[1]
        IN  /\ r.percentage.den > 0
            /\ r.attemptedQuestions > 0
                  => r.percentage.num * r.attemptedQuestions
                        = 100 * r.correctAnswers * r.percentage.den
            /\ r.attemptedQuestions = 0 => r.percentage.num = 0
            /\ (RuleCorrectSet = InIndices /\ ~InConfig.negativeMarking)
                  => /\ r.score = 100 * r.totalQuestions
                     /\ r.percentage.num = 100 * r.percentage.den
            /\ RuleAttempted = {}
                  => /\ r.attemptedQuestions = 0
                     /\ r.percentage.num = 0
                     /\ r.score = 0
                     /\ r.skippedQuestions = r.totalQuestions

\* Results computed for a quiz of several questions, all answered correctly.
C9_Witness ==
    /\ resultsOut # <<>>
    /\ Len(InQuestions) > 1
    /\ RuleCorrectSet = InIndices
    /\ ~InConfig.negativeMarking

\* ------------------------------------------------------ the history store
\* The previous record overridden by the fields of the partial item, its id
\* unchanged.
Overridden(record, partial) ==
    [f \in DOMAIN record \cup DOMAIN partial |->
        IF f = "id" THEN record.id
        ELSE IF f \in DOMAIN partial THEN partial[f] ELSE record[f]]

\* C10: for every id present and every partial item p, after
\* update-history(id, p) the record with that id is the previous record
\* overridden by the fields of p with its id unchanged, and every other
\* record is unchanged.
C10_UpdateMerges ==
    (dbCall.op = "update" /\ dbCall.id \in DOMAIN dbBefore) =>
        /\ DOMAIN history = DOMAIN dbBefore
        /\ history[dbCall.id] = Overridden(dbBefore[dbCall.id], dbCall.item)
        /\ history[dbCall.id].id = dbCall.id
        /\ \A k \in DOMAIN dbBefore \ {dbCall.id} : history[k] = dbBefore[k]

\* A title-and-id update of one of two records changed the topic only.
C10_Witness ==
    /\ dbCall.op = "update"
    /\ dbCall.id \in DOMAIN dbBefore
    /\ Cardinality(DOMAIN dbBefore) > 1
    /\ "topic" \in DOMAIN dbCall.item
    /\ "id" \in DOMAIN dbCall.item
    /\ "score" \notin DOMAIN dbCall.item
    /\ dbCall.item.id # dbCall.id
    /\ dbCall.item.topic # dbBefore[dbCall.id].topic
    /\ history[dbCall.id].score = dbBefore[dbCall.id].score

\* C11: update-history on an id that is not in the store fails with a
\* not-found error delivered to the caller (the promise is rejected) and
\* leaves the store unchanged: it never inserts a record.
C11_UpdateAbsentRejects ==
    (dbCall.op = "update" /\ dbCall.id \notin DOMAIN dbBefore) =>
        /\ ~dbCall.ok
        /\ history = dbBefore
        /\ dbCall.id \notin DOMAIN history

\* An update of an id that a store holding other records does not hold.
C11_Witness ==
    /\ dbCall.op = "update"
    /\ dbCall.id \notin DOMAIN dbBefore
    /\ DOMAIN dbBefore # {}
    /\ DOMAIN dbCall.item # {}

\* --------------------------------------------------- quiz generation
RECURSIVE SumSeq(_)
SumSeq(q) == IF q = <<>> THEN 0 ELSE q[1] + SumSeq(Tail(q))

ChunksMapped == chunking.chunks > 1 /\ chunking.mapped = chunking.chunks

\* C12: when the text splits into k > 1 chunks and the config asks for N
\* questions, the per-chunk counts sum to N, any two differ by at most 1,
\* the larger counts go to the first N mod k chunks, and a chunk whose
\* count is 0 is not sent to the gateway.
C12_ChunkCounts ==
    ChunksMapped =>
        LET N == chunking.totalQuestions
            k == chunking.chunks
            c == chunking.counts
            larger == {i \in 1..k : \E j \in 1..k : c[i] > c[j]}
        IN  /\ Len(c) = k
            /\ SumSeq(c) = N
            /\ \A i, j \in 1..k : c[i] - c[j] <= 1
            /\ larger # {} => larger = 1..(N % k)
            /\ larger = {} => N % k = 0
            /\ {p.part + 1 : p \in {chunking.prompts[x] : x \in DOMAIN chunking.prompts}}
                  = {i \in 1..k : c[i] > 0}
            /\ \A x \in DOMAIN chunking.prompts :
                  /\ chunking.prompts[x].count > 0
                  /\ chunking.prompts[x].count = c[chunking.prompts[x].part + 1]

\* A text of several chunks mapped for fewer questions than chunks, so that
\* some chunks get one question and the others none and are not sent.
C12_Witness ==
    /\ ChunksMapped
    /\ chunking.totalQuestions > 0
    /\ chunking.totalQuestions < chunking.chunks
    /\ Len(chunking.prompts) = chunking.totalQuestions

\* ------------------------------------------------------------------ hints
\* C13: if hint generation for question i fails at the gateway, then once
\* the request has been handled hints[i] is absent and loadingHints[i] is
\* false, and no other field of AppState has changed.
C13_HintFailureLeavesAbsent ==
    [][\A i \in DOMAIN pendingHints :
          HintGatewayFailed(i) =>
              /\ ~Has(appState'.hints, i)
              /\ appState' = [appState EXCEPT
                                 !.loadingHints = PutFlag(@, i, FALSE)]]_vars

\* A hint request failed at the gateway and has been handled.
C13_Witness ==
    \E i \in DOMAIN pendingHints :
        /\ Has(appState.hints, i)
        /\ appState.hints[i] = HintApology
        /\ ~appState.loadingHints[i]

\* ------------------------------------------------------------------- chat
\* The message of the assistant that the turn in progress fills.
LastMessage == chat.messages[Len(chat.messages)]

\* C14: if the gateway fails during a chat turn, before any increment or
\* after some, the text of the in-progress assistant message is exactly the
\* generic apology string (any partial text is replaced), and the loading
\* flag is false again.
C14_ChatFailureApology ==
    chat.stream = "failed" =>
        /\ LastMessage.sender = "ai"
        /\ LastMessage.text \in {ScreenApology, ServiceApology}
        /\ ~chat.isLoading

\* A turn whose stream failed after an increment had been shown.
C14_Witness ==
    /\ chat.stream = "failed"
    /\ Len(chat.fullResponse) > 1
    /\ ~chat.isLoading

\* ------------------------------------------------------------- flashcards
\* The attempted questions of the current quiz that are incorrect.
StateIncorrect ==
    {i \in 0..(QuizLen(appState) - 1) :
        /\ i \in DOMAIN appState.userAnswers
        /\ appState.userAnswers[i] # Null
        /\ ~RuleCorrect(appState.quizData.questions[i + 1], appState.userAnswers, i)}

QuizStarted(st) == QuizScreenMounted(st) /\ st.startTime # NoTime

C16_ExpirySubmits ==
    [][/\ QuizStarted(appState) => TimerMounted(appState)
       /\ (QuizStarted(appState) /\ appState'.status = "COMPLETED") =>
             /\ appState'.endTime = now
             /\ saveTimers' = saveTimers + 1
       /\ (~QuizScreenMounted(appState) /\ appState.status # "COMPLETED") =>
             appState'.status # "COMPLETED"]_vars

\* The per-question time has run out on the first question, and the quiz
\* is still in progress with no timer.
C16_Witness ==
    /\ QuizStarted(appState)
    /\ appState.quizConfig.timerType = "per-question"
    /\ now - appState.startTime >= appState.quizConfig.time
    /\ ~TimerMounted(appState)

\* The session store is at rest: the startup load is done, the save-session
\* effect has run for the current state and no write is on its way.
SessionAtRest ==
    /\ isDbLoaded
    /\ ~Crashed(appState)
    /\ ~EffectPending
    /\ session.writes = <<>>

\* C17: whenever the application is back in a neutral state (INITIAL through
\* start-new, or DASHBOARD) the session has been cleared: once the store is
\* at rest the session slot is absent and getSession returns no snapshot.
C17_NeutralStateClearsSession ==
    (SessionAtRest /\ appState.status \in {"INITIAL", "DASHBOARD"}) =>
        getSession(session) = <<>>

\* Start-new after a completed quiz, the store at rest: the slot holds the
\* snapshot of the INITIAL state.
C17_Witness ==
    /\ SessionAtRest
    /\ appState.status = "INITIAL"
    /\ quizRefs > 0
    /\ getSession(session) = <<appState>>

ReviewOnScreen ==
    /\ ResultsScreenMounted(appState)
    /\ appState.isReviewingHistory

C19_ReviewIsReadOnly ==
    [][/\ (appState'.isReviewingHistory /\ appState' # appState
              /\ appState.status = "DASHBOARD" /\ appState'.status = "COMPLETED"
              /\ saveTimers' = saveTimers) =>
             /\ appState'.currentHistoryId \in DOMAIN history
             /\ appState'.quizData = history[appState'.currentHistoryId].quizData
             /\ appState'.userAnswers = history[appState'.currentHistoryId].userAnswers
       /\ (appState'.isReviewingHistory /\ ~appState.isReviewingHistory) =>
             /\ appState.status = "DASHBOARD"
             /\ appState'.status = "COMPLETED"
       /\ appState.isReviewingHistory =>
             /\ history' = history
             /\ nextId' = nextId
       /\ ReviewOnScreen => ENABLED handleRetakeQuiz
       /\ (ReviewOnScreen /\ appState'.status = "IN_PROGRESS"
              /\ appState'.quizData = appState.quizData) =>
             /\ ~appState'.isReviewingHistory
             /\ appState'.currentHistoryId = appState.currentHistoryId
             /\ appState'.userAnswers = EmptyMap]_vars

\* A record is under review on the results screen, loaded as the store
\* holds it, with nothing of an earlier quiz still scheduled.
C19_Witness ==
    /\ ReviewOnScreen
    /\ appState.currentHistoryId \in DOMAIN history
    /\ appState.quizData = history[appState.currentHistoryId].quizData
    /\ appState.userAnswers = history[appState.currentHistoryId].userAnswers
    /\ appState.userAnswers # EmptyMap
    /\ Timers = 0

\* C20: a summary requested in COMPLETED resolves: with the gateway
\* answering, and unless the user leaves the results first,
\* isGeneratingSummary eventually returns to false with the summary text or
\* an error set.
C20_SummaryResolves ==
    (appState.status = "COMPLETED" /\ appState.isGeneratingSummary) ~>
        \/ /\ ~appState.isGeneratingSummary
           /\ appState.performanceSummary # NoSummary \/ appState.error # NoError
        \/ appState.status # "COMPLETED"

\* The summary was requested, nothing is scheduled and no call is awaited:
\* the flag stays set.
C20_Witness ==
    /\ appState.status = "COMPLETED"
    /\ appState.isGeneratingSummary
    /\ appState.performanceSummary = NoSummary
    /\ Timers = 0
    /\ Requests = 0
    /\ pendingSaves = {}

\* C21: in every behaviour, late gateway responses included, the status
\* becomes IN_PROGRESS only from GENERATING (generation success) or from
\* COMPLETED (retake).
C21_InProgressOrigins ==
    [][(appState'.status = "IN_PROGRESS" /\ appState.status # "IN_PROGRESS") =>
           appState.status \in {"GENERATING", "COMPLETED"}]_vars

\* C22: a send is accepted only when no turn is loading, so at most one
\* turn is in flight; during a turn every increment changes only the text of
\* the last (assistant) message, by appending the increment to it, the text
\* starting empty, and all earlier messages are unchanged.
Earlier(messages) == SubSeq(messages, 1, Len(messages) - 1)

Increments == (ChunkTexts \ {<<>>}) \cup {ServiceApology}

C22_OneTurnAppends ==
    [][/\ chat.isLoading <=> chat.stream = "open"
       /\ Len(chat'.messages) > Len(chat.messages) =>
             /\ ~chat.isLoading
             /\ chat.messages # <<>> =>
                   /\ chat'.isLoading
                   /\ Len(chat'.messages) = Len(chat.messages) + 2
                   /\ LastMessage' = [sender |-> "ai", text |-> <<>>]
       /\ (chat.isLoading /\ chat' # chat) =>
             /\ Len(chat'.messages) = Len(chat.messages)
             /\ Earlier(chat'.messages) = Earlier(chat.messages)
             /\ LastMessage'.sender = "ai"
             /\ \/ LastMessage'.text = LastMessage.text
                \/ \E inc \in Increments :
                      LastMessage'.text = LastMessage.text \o inc]_vars

\* Two increments were delivered in the second turn: the last message
\* holds them in order.
C22_Witness ==
    /\ chat.isLoading
    /\ Len(chat.messages) = 5
    /\ LastMessage.text = <<"x", "y">>

\* C23: chat started on a question from COMPLETED binds that question and
\* the answer recorded at the question's own index, also when two questions
\* have the same text; exiting chat returns to COMPLETED with chatContext
\* null.
OwnIndex(st) ==
    CHOOSE i \in 0..(QuizLen(st) - 1) :
        st.quizData.questions[i + 1] = st.chatContext[1].question

C23_ChatContextBinds ==
    [][/\ (appState.status = "COMPLETED" /\ appState'.status = "CHATTING") =>
             /\ appState'.chatContext # NoContext
             /\ \E i \in 0..(QuizLen(appState') - 1) :
                   appState'.quizData.questions[i + 1] = appState'.chatContext[1].question
             /\ appState'.chatContext[1].userAnswer =
                   IF Has(appState.userAnswers, OwnIndex(appState'))
                   THEN appState.userAnswers[OwnIndex(appState')] ELSE Undefined
       /\ (appState.status = "CHATTING" /\ appState' # appState) =>
             /\ appState'.status = "COMPLETED"
             /\ appState'.chatContext = NoContext]_vars

\* Chat on the second of two questions with the same text, which were
\* answered differently.
C23_Witness ==
    /\ appState.status = "CHATTING"
    /\ QuizLen(appState) = 2
    /\ appState.quizData.questions[1].question = appState.quizData.questions[2].question
    /\ appState.chatContext[1].question = appState.quizData.questions[2]
    /\ Has(appState.userAnswers, 0) /\ Has(appState.userAnswers, 1)
    /\ appState.userAnswers[0] # appState.userAnswers[1]

\* C24: a confirmed leave of a quiz in progress keeps the quiz, the answers
\* and the question index, and the dashboard then offers the user a way back
\* to IN_PROGRESS on that quiz with those answers; a declined confirmation
\* changes nothing.
PausedQuiz ==
    /\ isDbLoaded
    /\ appState.status = "DASHBOARD"
    /\ appState.quizData # NoQuiz
    /\ appState.endTime = NoTime
    /\ ~appState.isReviewingHistory

DashboardAction ==
    \/ handleStartNewConfig
    \/ \E id \in DOMAIN history : handleReviewHistory(history[id])

ResumeStep ==
    /\ DashboardAction
    /\ appState'.quizData = appState.quizData
    /\ appState'.userAnswers = appState.userAnswers
    /\ appState'.status = "IN_PROGRESS"

\* The first half of C24: the step that leaves the quiz for the dashboard
\* keeps the quiz, the answers and the question index.
C24_LeaveKeepsProgress ==
    [][(appState.status = "IN_PROGRESS" /\ appState'.status = "DASHBOARD") =>
          /\ appState'.quizData = appState.quizData
          /\ appState'.userAnswers = appState.userAnswers
          /\ appState'.currentQuestionIndex = appState.currentQuestionIndex]_vars

\* No step enters IN_PROGRESS with an answer in userAnswers: whatever the
\* user does after leaving, the answers do not come back with the quiz.
C24_Reentry ==
    [][(appState.status # "IN_PROGRESS" /\ appState'.status = "IN_PROGRESS") =>
          appState'.userAnswers = EmptyMap]_vars

\* C24 as a whole: progress is kept by the leave and, on the dashboard, an
\* action of the user resumes the paused quiz with its answers.
C24_PausedQuizResumes ==
    /\ C24_LeaveKeepsProgress
    /\ [](PausedQuiz /\ appState.userAnswers # EmptyMap => ENABLED ResumeStep)

\* The user left the second question of a quiz with one answer given.
C24_Witness ==
    /\ PausedQuiz
    /\ appState.currentQuestionIndex = 1
    /\ appState.userAnswers # EmptyMap

\* C25: within one attempt the submit takes effect at most once: while the
\* status stays COMPLETED no step overwrites endTime, clears the summary or
\* the error, or schedules another save of the history.
C25_SubmitTakesEffectOnce ==
    [][(appState.status = "COMPLETED" /\ appState'.status = "COMPLETED") =>
          /\ appState'.endTime = appState.endTime
          /\ appState'.performanceSummary = appState.performanceSummary
          /\ appState'.error = appState.error
          /\ saveTimers' <= saveTimers]_vars

\* The quiz was submitted while the delayed submit of a skip is pending.
C25_Witness ==
    /\ appState.status = "COMPLETED"
    /\ submitTimers > 0
    /\ appState.endTime # NoTime

\* C26: a submission of a quiz that is not under review is recorded with
\* the answers of the moment of submission: while its save is scheduled, no
\* step other than a submit changes what saveToHistory will read (the quiz,
\* the answers, the review flag), so nothing alters or suppresses the record.
SaveScheduled ==
    /\ saveTimers > 0
    /\ appState.quizData # NoQuiz
    /\ ~appState.isReviewingHistory

C26_SubmissionIsRecorded ==
    [][(SaveScheduled /\ saveTimers' = saveTimers) =>
          /\ appState'.quizData = appState.quizData
          /\ appState'.userAnswers = appState.userAnswers
          /\ appState'.isReviewingHistory = appState.isReviewingHistory]_vars

\* A quiz with an answer was submitted and its save has not run yet.
C26_Witness ==
    /\ SaveScheduled
    /\ appState.status = "COMPLETED"
    /\ appState.userAnswers # EmptyMap

\* C27: hints and loadingHints belong to the current attempt: a hint
\* response whose request was made before the attempt began (its loading
\* flag was cleared by the retake or by the new quiz) stores no hint and
\* leaves loadingHints alone.
StaleHintResponse(i) ==
    /\ pendingHints'[i] < pendingHints[i]
    /\ appState.status = "IN_PROGRESS"
    /\ ~(Has(appState.loadingHints, i) /\ appState.loadingHints[i])

C27_StaleHintDropped ==
    [][\A i \in DOMAIN pendingHints :
          StaleHintResponse(i) =>
             /\ appState'.hints = appState.hints
             /\ appState'.loadingHints = appState.loadingHints]_vars

\* A new attempt has begun while a hint request of the attempt before is
\* with the gateway.
C27_Witness ==
    /\ appState.status = "IN_PROGRESS"
    /\ appState.loadingHints = EmptyFlags
    /\ \E i \in DOMAIN pendingHints : pendingHints[i] > 0

\* C28: whenever the status is GENERATING a request for a quiz is with the
\* gateway (so that its answer ends the GENERATING status), also after a
\* session was restored from a snapshot taken in status GENERATING.
C28_GeneratingHasRequest ==
    (isDbLoaded /\ appState.status = "GENERATING") => pendingGen > 0

\* The stored snapshot has status GENERATING and the page is loading.
C28_Witness ==
    /\ ~isDbLoaded
    /\ StoredIsValid
    /\ storedSession[1].status = "GENERATING"

\* C29: within one attempt a skip is irreversible and overwrites: while the
\* quiz stays in progress a null in userAnswers stays null, and a click on
\* Skip leaves null at the current question whatever answer was there.
SameAttempt ==
    /\ appState.status = "IN_PROGRESS"
    /\ appState'.status = "IN_PROGRESS"
    /\ appState'.quizData = appState.quizData

C29_SkipIsFinal ==
    [][/\ SameAttempt =>
             \A i \in DOMAIN appState.userAnswers :
                appState.userAnswers[i] = Null =>
                   /\ Has(appState'.userAnswers, i)
                   /\ appState'.userAnswers[i] = Null
       /\ handleSkipClick =>
             /\ Has(appState'.userAnswers, appState.currentQuestionIndex)
             /\ appState'.userAnswers[appState.currentQuestionIndex] = Null]_vars

\* The quiz screen shows a question with options that was skipped; another
\* question holds an answer.
C29_Witness ==
    /\ QuizScreenMounted(appState)
    /\ isSkipped
    /\ currentQuestion.type # "Fill-in-the-Blank"
    /\ \E i \in DOMAIN appState.userAnswers : appState.userAnswers[i] # Null

\* C30: splitTextIntoChunks terminates and its chunks cover the text: every
\* run of the loop body moves startIndex forward; on return the chunks,
\* laid out from position 0 with each next one starting overlap characters
\* before the end of the one before, are the pieces of the text at these
\* positions, the last one ends at the end of the text, none is longer than
\* maxChars, and a text that fits in maxChars comes back as one chunk.
RECURSIVE chunkStart(_, _, _)
chunkStart(chunks, overlap, k) ==
    IF k = 1 THEN 0
    ELSE chunkStart(chunks, overlap, k - 1) + Len(chunks[k - 1]) - overlap

chunkEnd(chunks, overlap, k) == chunkStart(chunks, overlap, k) + Len(chunks[k])

C30_LoopAdvances ==
    [][splitting.pc = "loop" =>
          \/ splitting'.pc = "return"
          \/ splitting'.startIndex > splitting.startIndex]_vars

C30_ChunksLaidOut ==
    splitting.pc = "return" =>
       LET chunks == splitting.chunks
           text == splitting.text
           overlap == splitting.overlap
       IN  /\ chunks # <<>>
           /\ \A k \in 1..Len(chunks) :
                 /\ chunkStart(chunks, overlap, k) >= 0
                 /\ chunkEnd(chunks, overlap, k) <= Len(text)
                 /\ chunks[k] = substring(text, chunkStart(chunks, overlap, k),
                                          chunkEnd(chunks, overlap, k))
           /\ chunkEnd(chunks, overlap, Len(chunks)) = Len(text)
           /\ Len(text) <= splitting.maxChars => chunks = <<text>>

C30_ChunksWithinMax ==
    splitting.pc = "return" =>
       \A k \in 1..Len(splitting.chunks) :
          Len(splitting.chunks[k]) <= splitting.maxChars

C30_SplitCoversText ==
    /\ C30_LoopAdvances
    /\ []C30_ChunksLaidOut
    /\ []C30_ChunksWithinMax

\* A text was cut into three chunks, one of the first two at a paragraph
\* break or at the end of a sentence.
C30_Witness ==
    /\ splitting.pc = "return"
    /\ Len(splitting.chunks) = 3
    /\ \E k \in 1..2 : Len(splitting.chunks[k]) # splitting.maxChars

====
